---- MODULE Spec2Model ----
(***************************************************************************)
(* A state-machine model of the cooker of lib/bb/cooker.py: the lifecycle  *)
(* state of BBCooker, one updateCache tick split at the points where a     *)
(* signal handler can run, and the parser pool of CookerParser (the feeder *)
(* process, the worker processes, the jobs / results / quit channels and   *)
(* the driver's parse_next and shutdown).                                  *)
(*                                                                         *)
(* Files are the integers 1..n; the job None is Sentinel.  A result is a   *)
(* record [fn, exc]: exc is TRUE when the value carried is an exception.   *)
(* bb.cache.Cache.load of a file that cacheValid accepted is modelled as a *)
(* hit (cached = TRUE), so the driver yields (not cached, infos) with      *)
(* parsed = FALSE for the files of fromcache.                              *)
(***************************************************************************)
EXTENDS Integers, Sequences, FiniteSets, TLC

\* Bounds of the model.
MaxFiles == 2
MaxWorkers == 2
MaxCookers == 2
MaxFailures == 2
MaxLayers == 3

\* multiprocessing.Queue() built without maxsize: the semaphore's ceiling.
ResultsCap == 2147483647

\* The job None that a clean shutdown pushes on the jobs channel.
Sentinel == 0

States == {"initial", "parsing", "running", "shutdown", "forceshutdown", "stopped", "error"}

Signals == {"SIGTERM", "SIGHUP"}

VARIABLES
    state,          \* BBCooker.state
    served,         \* pre_serve has run
    uc_pc,          \* position of the driver inside an updateCache tick
    ret,            \* outcome of the last finished updateCache call
    pn_ret,         \* value returned by the last parse_next call
    postdone,       \* post-parse phases run by the tick that drained the stream
    events,         \* events and warnings fired by the step just taken, in order
    sigInTick,      \* a signal handler ran while the current tick was executing
    hasparser,      \* self.parser is a CookerParser (None before the first one)
    filelist,       \* the collected file list
    validSet,       \* files for which bb_cache.cacheValid holds
    badSet,         \* files on which the external parser raises
    num_processes,  \* BB_NUMBER_PARSE_THREADS
    fromcache,      \* files load_cached has still to yield
    genDone,        \* parse_generator has finished (returned or raised)
    willparse,      \* the feeder's list of jobs
    fjob,           \* the job the feeder holds while it blocks in put
    feeder,         \* the feeder process
    feeder_quit,    \* channel feeder_quit
    parser_quit,    \* number of messages on channel parser_quit
    jobs,           \* channel jobs
    result_queue,   \* channel result_queue
    wstate,         \* the worker processes
    wjob,           \* the job a worker is parsing
    pending,        \* a worker's buffer of unpublished results
    parsed, cached, error, current, toparse,
    haveshutdown, sd_clean, sd_force, sd_left, synced,
    recipecache,    \* file -> number of add_info calls made for it
    failed,         \* failure results the driver has consumed
    rq,             \* the run queue registered by buildTargets
    rq_failed,      \* the number of tasks of the run queue that have failed
    featureset,     \* self.featureset: the features switched on
    cfg_features,   \* the features the configuration data was last built with
    sf_ret,         \* how the last setFeatures call ended: "none", "ok", "raise"
    lock_owner,     \* the cooker process holding ${TOPDIR}/bitbake.lock, 0 for none
    ctor_pc,        \* how far BBCooker.__init__ has come in each cooker process
    layer_declared, \* layer -> BBFILE_PRIORITY_<layer>: None or <<integer>>
    layer_deps,     \* layer -> the layers named by LAYERDEPENDS_<layer>
    collection_priorities,  \* layer -> None or <<priority>>, as handleCollections has it
    min_prio,       \* handleCollections' min_prio
    hc_pc,          \* handleCollections: "start", "scanned", "done"
    collection_list,    \* BBFILE_COLLECTIONS: the enabled layers, in order
    layer_vermismatch,  \* layers asking a version of a dependency that is not the enabled one
    errors,         \* handleCollections' errors flag
    hc_result,      \* how handleCollections ended: "ok" or the exception it raised
    layer_pattern,  \* layer -> BBFILE_PATTERN_<layer>: a directory prefix, None when unusable
    bbfile_config_priorities,   \* recipecache.bbfile_config_priorities
    pri_ret,        \* the last calc_bbfile_priority call: <<filename, priority>>
    fs,             \* the files that exist, as positions in Disk
    fs_reversed,    \* the file system lists a directory in reverse order
    BBFILES,        \* the entries of BBFILES, in order
    BBMASK,         \* BBMASK: unset, not a regular expression, or a regular expression
    appendlist,     \* CookerCollectFiles.appendlist: key -> list of .bbappend files
    overlayed,      \* CookerCollectFiles.overlayed: <<>> while unset, else <<winner -> files>>
    cb_ret,         \* what collect_bbfiles returned or raised
    cb_pc,          \* collect_bbfiles: "start", "done"
    appliedappendlist,  \* CookerCollectFiles.appliedappendlist
    gfa_ret,        \* the last get_file_appends call: <<fn, the list returned>>
    warn_only,      \* BB_DANGLINGAPPENDS_WARNONLY, "" when unset
    pkgs_to_build,  \* the targets asked for: <<name>> or <<name, task>> for name:do_task
    ASSUME_PROVIDED,    \* the names in ASSUME_PROVIDED
    world_target,   \* recipecache.world_target
    possible_world, \* recipecache.possible_world, every file named by its recipe
    tree_event,     \* what the last graph operation emitted, "none" before
    results_maxsize,    \* the capacity of the results channel
    cache_load,     \* what bb_cache.load does for a file: "hit", "miss" or "raise"
    pkgfns,         \* the recipe files collection_priorities is called with
    cp_ret,         \* collection_priorities: the priorities returned and the layers warned about
    sm_pc,          \* server_main: "start", "func", "post", "done"
    exit_log,       \* where server_main was at each CookerExit fired, in order
    ui_pc,          \* knotty main: "loop", "handler", "exited", "raised"
    main_shutdown,  \* main.shutdown
    interrupted,    \* interrupted
    return_value,   \* return_value, and what main returns once it has exited
    ui_queue,       \* the events waiting for eventHandler.waitEvent
    ui_arrived,     \* the number of events the server has sent
    ui_interrupts,  \* the number of keyboard interrupts delivered
    sent,           \* the commands sent with server.runCommand, in order
    observe_only,   \* params.observe_only
    universe_target,    \* recipecache.universe_target
    ignored_dependencies,   \* recipecache.ignored_dependencies
    bt_ret,         \* what buildTaskData returned or raised
    bt_warnings,    \* the targets checkPackages warned about, in order
    bt_pc           \* buildTaskData: "start", "done"

cookervars == <<state, served, uc_pc, ret, pn_ret, postdone, events, sigInTick, hasparser>>

configvars == <<filelist, validSet, badSet, num_processes>>

feedervars == <<willparse, fjob, feeder, feeder_quit>>

workervars == <<parser_quit, wstate, wjob, pending>>

countvars == <<parsed, cached, error, current, toparse>>

sdvars == <<haveshutdown, sd_clean, sd_force, sd_left, synced>>

\* State outside the parse and build machinery.
rqvars == <<rq, rq_failed>>

featvars == <<featureset, cfg_features, sf_ret>>

lockvars == <<lock_owner, ctor_pc>>

\* What handleCollections reads from the configuration.
layerinputs == <<collection_list, layer_declared, layer_deps, layer_vermismatch, layer_pattern>>

layervars == <<layerinputs, collection_priorities, min_prio, errors, hc_result, hc_pc,
               bbfile_config_priorities>>

\* The CookerCollectFiles object and the results of the calls made on it.
collectinputs == <<fs, fs_reversed, BBFILES, BBMASK, warn_only>>

collectvars == <<pri_ret, collectinputs, appendlist, overlayed, cb_ret, cb_pc,
                 appliedappendlist, gfa_ret>>

\* What buildTaskData reads.
targetinputs == <<pkgs_to_build, ASSUME_PROVIDED, universe_target, possible_world>>

targetvars == <<targetinputs, world_target, ignored_dependencies, bt_ret, bt_warnings,
                bt_pc, tree_event>>

\* State that one operation alone reads or writes.
servevars == <<sm_pc, exit_log>>

\* The console UI.
uivars == <<ui_pc, main_shutdown, interrupted, return_value, ui_queue, ui_arrived,
            ui_interrupts, sent, observe_only>>

sidevars == <<results_maxsize, cache_load, pkgfns, cp_ret, servevars, uivars>>

\* The inputs and results of the configuration functions checked on their own.
purevars == <<layervars, collectvars, targetvars>>

auxvars == <<featvars, lockvars, purevars, sidevars>>

\* The parse and build machinery of the cooker that serves.
machinevars == <<cookervars, configvars, feedervars, workervars, countvars, sdvars,
                 fromcache, genDone, jobs, result_queue, recipecache, failed, rqvars>>

vars == <<cookervars, configvars, feedervars, workervars, countvars, sdvars,
          fromcache, genDone, jobs, result_queue, recipecache, failed, rqvars, auxvars>>

Range(s) == {s[i] : i \in 1..Len(s)}

Workers == 1..MaxWorkers

Procs == 1..num_processes

----
\* BBCooker: construction, signals, shutdown requests.

MachineWith(maxsize) ==
    /\ results_maxsize = maxsize
    /\ pkgfns = {}
    /\ cp_ret = <<>>
    /\ sm_pc = "start"
    /\ exit_log = <<>>
    /\ ui_pc = "loop"
    /\ main_shutdown = 0
    /\ interrupted = FALSE
    /\ return_value = 0
    /\ ui_queue = <<>>
    /\ ui_arrived = 0
    /\ ui_interrupts = 0
    /\ sent = <<>>
    /\ state = "initial"
    /\ served = FALSE
    /\ uc_pc = "idle"
    /\ ret = "none"
    /\ pn_ret = TRUE
    /\ postdone = <<>>
    /\ events = <<>>
    /\ sigInTick = FALSE
    /\ hasparser = FALSE
    /\ \E n \in 0..MaxFiles : filelist = [i \in 1..n |-> i]
    /\ validSet \in SUBSET Range(filelist)
    /\ badSet \in SUBSET (Range(filelist) \ validSet)
    /\ num_processes \in 1..MaxWorkers
    /\ fromcache = <<>>
    /\ genDone = FALSE
    /\ willparse = <<>>
    /\ fjob = Sentinel
    /\ feeder = "none"
    /\ feeder_quit = <<>>
    /\ parser_quit = 0
    /\ jobs = <<>>
    /\ result_queue = <<>>
    /\ wstate = [w \in Workers |-> "none"]
    /\ wjob = [w \in Workers |-> Sentinel]
    /\ pending = [w \in Workers |-> <<>>]
    /\ parsed = 0
    /\ cached = 0
    /\ error = 0
    /\ current = 0
    /\ toparse = 0
    /\ haveshutdown = FALSE
    /\ sd_clean = TRUE
    /\ sd_force = FALSE
    /\ sd_left = 0
    /\ synced = FALSE
    /\ recipecache = [f \in 1..MaxFiles |-> 0]
    /\ failed = {}
    /\ rq = "none"
    /\ rq_failed = 0
    /\ featureset = {}
    /\ cfg_features = {}
    /\ sf_ret = "none"

\* The cooker after construction: self.result_queue = multiprocessing.Queue()
\* has the capacity of its semaphore, and the cache loads every file it
\* declared valid.
MachineInit ==
    /\ MachineWith(ResultsCap)
    /\ cache_load = [f \in 1..MaxFiles |-> "hit"]
    /\ observe_only = FALSE

\* Python's None for a priority; a priority p is held as <<p>>.
None == <<>>

\* The layers of BBFILE_COLLECTIONS, in the order of the list.
Layers == 1..MaxLayers

\* BBFILE_COLLECTIONS with the layers in ascending order.
ListOrder == [i \in 1..MaxLayers |-> i]

\* handleCollections has not started.
HcStart ==
    /\ bbfile_config_priorities = <<>>
    /\ collection_priorities = [c \in Layers |-> None]
    /\ min_prio = 0
    /\ errors = FALSE
    /\ hc_result = "none"
    /\ hc_pc = "start"

\* A file name: the directories of its path from the top of the layers down,
\* and its basename as a string of characters.
Path(dir, base) == [dir |-> dir, base |-> base]

\* Every layer's BBFILE_PATTERN is "^<its own directory>/".
OwnPatterns == [c \in Layers |-> <<c>>]

\* buildTaskData has not been called.
TargetStart ==
    /\ bt_ret = [exc |-> "none", runlist |-> <<>>, fulltargetlist |-> <<>>]
    /\ bt_warnings = <<>>
    /\ bt_pc = "start"
    /\ tree_event = "none"

\* No targets are asked for, on an empty configuration.
TargetIdle ==
    /\ TargetStart
    /\ pkgs_to_build = <<>>
    /\ ASSUME_PROVIDED = {}
    /\ world_target = {}
    /\ possible_world = {}
    /\ universe_target = {}
    /\ ignored_dependencies = {}

\* A dictionary without keys.
EmptyDict == [k \in {} |-> <<>>]

\* BBMASK is not set.
NoMask == [kind |-> "unset", dir |-> <<>>]

\* A CookerCollectFiles on which no call has been made.
CollectStart ==
    /\ pri_ret = <<>>
    /\ appendlist = EmptyDict
    /\ overlayed = <<>>
    /\ cb_ret = [exc |-> "none", bbfiles |-> <<>>, masked |-> 0]
    /\ cb_pc = "start"
    /\ appliedappendlist = <<>>
    /\ gfa_ret = <<>>

\* No CookerCollectFiles call has been made, on an empty configuration.
CollectIdle ==
    /\ CollectStart
    /\ fs = {}
    /\ fs_reversed = FALSE
    /\ BBFILES = <<>>
    /\ BBMASK = NoMask
    /\ warn_only = ""

\* No layer configuration has been handled.
LayersIdle ==
    /\ CollectIdle
    /\ layer_pattern = OwnPatterns
    /\ collection_list = ListOrder
    /\ layer_declared = [c \in Layers |-> None]
    /\ layer_deps = [c \in Layers |-> {}]
    /\ layer_vermismatch = {}
    /\ HcStart
    /\ TargetIdle

\* The cooker processes started against one build directory.
Cookers == 1..MaxCookers

\* The state after construction: cooker 1 is built and holds the lock.
Init ==
    /\ MachineInit
    /\ lock_owner = 1
    /\ ctor_pc = [c \in Cookers |-> IF c = 1 THEN "ready" ELSE "none"]
    /\ LayersIdle

\* A handler that acts on SIGTERM alone.
sigterm_only(signum, st) == IF signum = "SIGTERM" THEN "forceshutdown" ELSE st

\* The state the handler leaves, whatever the signal and the state before.
sigterm_exception(signum, st) == "forceshutdown"

\* BBCooker.shutdown(force).
shutdown(force) == IF force THEN "forceshutdown" ELSE "shutdown"

\* BBCooker.finishcommand().
finishcommand == "initial"

\* command.finishAsyncCommand ends the command in flight through finishcommand.
finishAsyncCommand == finishcommand

\* server_main: pre_serve starts the PR service; a configuration error of the
\* service leaves the cooker in state error.
PreServe ==
    /\ ~served
    /\ served' = TRUE
    /\ \E ok \in BOOLEAN :
           /\ state' = IF ok THEN state ELSE "error"
           /\ events' = IF ok THEN <<>> ELSE <<"CookerExit">>
    /\ UNCHANGED <<uc_pc, ret, pn_ret, postdone, sigInTick, hasparser, configvars, feedervars,
                   workervars, countvars, sdvars, fromcache, genDone, jobs, result_queue,
                   recipecache, failed, rqvars>>
    /\ UNCHANGED auxvars

\* The warning the handler logs.
SigWarning(signum) ==
    IF signum = "SIGTERM" THEN "Cooker recieved SIGTERM, shutting down..."
    ELSE IF signum = "SIGHUP" THEN "Cooker recieved SIGHUP, shutting down..."
    ELSE "none"

\* The handler installed for SIGTERM and SIGHUP; it runs between any two steps
\* of the driver.
Signal(signum) ==
    /\ state' = sigterm_exception(signum, state)
    /\ events' = <<SigWarning(signum)>>
    /\ sigInTick' = (sigInTick \/ uc_pc # "idle")
    /\ UNCHANGED <<served, uc_pc, ret, pn_ret, postdone, hasparser, configvars, feedervars,
                   workervars, countvars, sdvars, fromcache, genDone, jobs, result_queue,
                   recipecache, failed, rqvars>>
    /\ UNCHANGED auxvars

\* A stateShutdown / stateForceShutdown request, served between two idle ticks.
CookerShutdown(force) ==
    /\ served
    /\ uc_pc = "idle"
    /\ state' = shutdown(force)
    /\ events' = <<>>
    /\ UNCHANGED <<served, uc_pc, ret, pn_ret, postdone, sigInTick, hasparser, configvars,
                   feedervars, workervars, countvars, sdvars, fromcache, genDone, jobs,
                   result_queue, recipecache, failed, rqvars>>
    /\ UNCHANGED auxvars

\* The command layer ends a command whose updateCache call raised.
FinishCommand ==
    /\ uc_pc = "idle"
    /\ ret \in {"raise", "fatal"}
    /\ state' = finishAsyncCommand
    /\ ret' = "none"
    /\ events' = <<>>
    /\ UNCHANGED <<served, uc_pc, pn_ret, postdone, sigInTick, hasparser, configvars, feedervars,
                   workervars, countvars, sdvars, fromcache, genDone, jobs, result_queue,
                   recipecache, failed, rqvars>>
    /\ UNCHANGED auxvars

----
\* CookerParser.__init__ and start.

\* The files __init__ puts in fromcache, in file-list order.
FromCacheOf(fl, valid) == SelectSeq(fl, LAMBDA f : f \in valid)

\* The files __init__ puts in willparse, in file-list order.
WillParseOf(fl, valid) == SelectSeq(fl, LAMBDA f : f \notin valid)

\* self.toparse = self.total - len(self.fromcache)
ToParseOf(fl, valid) == Len(fl) - Len(FromCacheOf(fl, valid))

----
\* CookerParser.shutdown.

\* A shutdown that forgets it has already run.
ShutdownNoopEmptyOnly == toparse = 0

\* The two early returns of shutdown.
ShutdownNoop == toparse = 0 \/ haveshutdown

\* A loop that pushes one None too few.
SentinelsOneShort == num_processes - 1

\* One None per process on the jobs channel.
SentinelsToPush == num_processes

\* A loop that pushes one quit message too few.
QuitsOneShort == num_processes - 1

\* One None per process on the parser_quit channel.
QuitsToPush == num_processes

\* shutdown(clean, force) up to the first blocking call.
CookerParser_shutdown(clean, force) ==
    /\ haveshutdown' = TRUE
    /\ sd_clean' = clean
    /\ sd_force' = force
    /\ IF clean
       THEN /\ events' = <<"ParseCompleted">>
            /\ feeder_quit' = Append(feeder_quit, "None")
            /\ sd_left' = SentinelsToPush
            /\ parser_quit' = parser_quit
            /\ uc_pc' = "sd_put"
       ELSE /\ events' = <<>>
            /\ feeder_quit' = Append(feeder_quit, "cancel")
            /\ parser_quit' = parser_quit + QuitsToPush
            /\ sd_left' = 0
            /\ uc_pc' = "sd_joinw"
    /\ UNCHANGED synced

\* for process in self.processes: self.jobs.put(None), a blocking put each.
SdPut ==
    /\ uc_pc = "sd_put"
    /\ IF sd_left = 0
       THEN /\ uc_pc' = "sd_joinw"
            /\ UNCHANGED <<jobs, sd_left>>
       ELSE /\ Len(jobs) < num_processes
            /\ jobs' = Append(jobs, Sentinel)
            /\ sd_left' = sd_left - 1
            /\ UNCHANGED uc_pc
    /\ events' = <<>>
    /\ UNCHANGED <<state, served, ret, pn_ret, postdone, sigInTick, hasparser, configvars,
                   feedervars, workervars, countvars, haveshutdown, sd_clean, sd_force,
                   synced, fromcache, genDone, result_queue, recipecache,
                   failed, rqvars>>
    /\ UNCHANGED auxvars

\* What the join loop leaves of a worker: force terminates it after join(.1).
JoinedWorker(force, ws) == IF force /\ ws \notin {"none", "exited"} THEN "dead" ELSE ws

\* for process in self.processes: join (or join(.1) and terminate).
SdJoinW ==
    /\ uc_pc = "sd_joinw"
    /\ sd_force \/ \A w \in Procs : wstate[w] = "exited"
    /\ wstate' = [w \in Workers |-> JoinedWorker(sd_force, wstate[w])]
    /\ uc_pc' = "sd_joinf"
    /\ events' = <<>>
    /\ UNCHANGED <<state, served, ret, pn_ret, postdone, sigInTick, hasparser, configvars,
                   feedervars, parser_quit, wjob, pending, countvars, sdvars, fromcache,
                   genDone, jobs, result_queue, recipecache, failed, rqvars>>
    /\ UNCHANGED auxvars

\* self.feeder.join(), the cache sync, and the return to the caller: parse_next
\* returns False, the forced shutdown of updateCache raises.
SdJoinF ==
    /\ uc_pc = "sd_joinf"
    /\ feeder = "exited"
    /\ synced' = TRUE
    /\ IF sd_force
       THEN /\ uc_pc' = "idle"
            /\ ret' = "raise"
            /\ sigInTick' = FALSE
            /\ UNCHANGED pn_ret
       ELSE /\ uc_pc' = "post"
            /\ pn_ret' = FALSE
            /\ UNCHANGED <<ret, sigInTick>>
    /\ events' = <<>>
    /\ UNCHANGED <<state, served, postdone, hasparser, configvars, feedervars, workervars,
                   countvars, haveshutdown, sd_clean, sd_force, sd_left,
                   fromcache, genDone, jobs, result_queue, recipecache, failed, rqvars>>
    /\ UNCHANGED auxvars

----
\* BBCooker.updateCache.

\* An updateCache call ends: the tick is over.
TickEnds(outcome) ==
    /\ uc_pc' = "idle"
    /\ ret' = outcome
    /\ sigInTick' = FALSE

\* An updateCache without its first test.
CacheNeverUpToDate(st) == FALSE

\* if self.state == state.running: return
CacheUpToDate(st) == st = "running"

\* The tests of state at the top of updateCache: return in running, force the
\* parser down and raise in shutdown / forceshutdown.  The command in flight
\* calls updateCache until the cache is up to date and only then registers its
\* build callback, so no tick starts while a run queue is registered.
UcEnter ==
    /\ served
    /\ rq = "none"
    /\ uc_pc = "idle"
    /\ IF CacheUpToDate(state)
       THEN /\ TickEnds("None")
            /\ events' = <<>>
            /\ UNCHANGED <<sdvars, feeder_quit, parser_quit>>
       ELSE IF state \in {"shutdown", "forceshutdown"}
       THEN IF hasparser /\ ~ShutdownNoop
            THEN /\ CookerParser_shutdown(FALSE, TRUE)
                 /\ UNCHANGED <<ret, sigInTick>>
            ELSE /\ TickEnds("raise")
                 /\ events' = <<>>
                 /\ UNCHANGED <<sdvars, feeder_quit, parser_quit>>
       ELSE /\ uc_pc' = "l1294"
            /\ events' = <<>>
            /\ UNCHANGED <<ret, sigInTick, sdvars, feeder_quit, parser_quit>>
    /\ UNCHANGED <<state, served, pn_ret, postdone, hasparser, configvars, willparse, fjob,
                   feeder, wstate, wjob, pending, countvars, fromcache, genDone, jobs,
                   result_queue, recipecache, failed, rqvars>>
    /\ UNCHANGED auxvars

\* if self.state != state.parsing: the third read of state.
Uc1294 ==
    /\ uc_pc = "l1294"
    /\ uc_pc' = IF state # "parsing" THEN "config" ELSE "pn"
    /\ events' = <<>>
    /\ UNCHANGED <<state, served, ret, pn_ret, postdone, sigInTick, hasparser, configvars,
                   feedervars, workervars, countvars, sdvars, fromcache, genDone, jobs,
                   result_queue, recipecache, failed, rqvars>>
    /\ UNCHANGED auxvars

\* The state updateCache assigns once the parser is constructed.
StateAfterParserCreated(st) == "parsing"

\* parseConfiguration, the file collection, CookerParser(...) with its start(),
\* and self.state = state.parsing.
UcConfig ==
    /\ uc_pc = "config"
    /\ hasparser' = TRUE
    /\ recipecache' = [f \in 1..MaxFiles |-> 0]
    /\ failed' = {}
    /\ fromcache' = FromCacheOf(filelist, validSet)
    /\ toparse' = ToParseOf(filelist, validSet)
    /\ parsed' = 0
    /\ cached' = 0
    /\ error' = 0
    /\ current' = 0
    /\ genDone' = FALSE
    /\ haveshutdown' = FALSE
    /\ synced' = FALSE
    /\ postdone' = <<>>
    /\ jobs' = <<>>
    /\ result_queue' = <<>>
    /\ feeder_quit' = <<>>
    /\ parser_quit' = 0
    /\ fjob' = Sentinel
    /\ wjob' = [w \in Workers |-> Sentinel]
    /\ pending' = [w \in Workers |-> <<>>]
    /\ IF ToParseOf(filelist, validSet) > 0
       THEN /\ events' = <<"ParseStarted">>
            /\ willparse' = WillParseOf(filelist, validSet)
            /\ feeder' = "top"
            /\ wstate' = [w \in Workers |-> IF w \in Procs THEN "top" ELSE "none"]
       ELSE /\ events' = <<>>
            /\ willparse' = <<>>
            /\ feeder' = "none"
            /\ wstate' = [w \in Workers |-> "none"]
    /\ sd_clean' = TRUE
    /\ sd_force' = FALSE
    /\ sd_left' = 0
    /\ state' = StateAfterParserCreated(state)
    /\ uc_pc' = "pn"
    /\ pn_ret' = TRUE
    /\ UNCHANGED <<served, ret, sigInTick, configvars, rqvars>>
    /\ UNCHANGED auxvars

\* An except clause that forgets to count the failure.
ErrorNotCounted(e) == e

\* self.error += 1 of the except clauses of parse_next.
ErrorAfterFailure(e) == e + 1

\* self.progress_chunk = max(self.toparse / 100, 1), an integer division.
ProgressChunk == IF toparse \div 100 > 1 THEN toparse \div 100 ELSE 1

\* The ParseProgress event of parse_next, fired every progress_chunk files.
ProgressEvents(n) == IF n % ProgressChunk = 0 THEN <<"ParseProgress">> ELSE <<>>

\* parse_generator's test for the end of the worker stream.
WorkerStreamDrained == toparse = 0 \/ genDone \/ parsed >= toparse

\* A chain that serves the worker stream first.
WorkerStreamFirst == fromcache # <<>> /\ WorkerStreamDrained

\* itertools.chain(load_cached(), parse_generator()): the next result comes from
\* load_cached as long as it has one.
CachedStreamNext == fromcache # <<>>

\* cached, infos = self.bb_cache.load(filename, appends, self.cfgdata): cached
\* is what the cache reports for the file.
LoadedFromCache(filename) == cache_load[filename] = "hit"

\* One parse_next call up to its return or to the shutdown it starts: a cached
\* entry (a load that raises ends the generator load_cached, and the chain
\* goes on with parse_generator at the next call), the end of the stream, or
\* the next worker result (the generator polls result_queue until one is
\* there).
UcParseNext ==
    /\ uc_pc = "pn"
    /\ IF CachedStreamNext /\ cache_load[Head(fromcache)] = "raise"
       THEN /\ fromcache' = <<>>
            /\ error' = ErrorAfterFailure(error)
            /\ failed' = failed \cup {Head(fromcache)}
            /\ IF ShutdownNoop
               THEN /\ pn_ret' = FALSE
                    /\ uc_pc' = "post"
                    /\ events' = <<>>
                    /\ UNCHANGED <<sdvars, feeder_quit, parser_quit>>
               ELSE /\ CookerParser_shutdown(FALSE, FALSE)
                    /\ UNCHANGED pn_ret
            /\ UNCHANGED <<parsed, cached, current, toparse, genDone, result_queue,
                           recipecache>>
       ELSE IF CachedStreamNext
       THEN /\ fromcache' = Tail(fromcache)
            /\ current' = current + 1
            /\ IF LoadedFromCache(Head(fromcache))
               THEN /\ cached' = cached + 1
                    /\ events' = <<>>
                    /\ UNCHANGED parsed
               ELSE /\ parsed' = parsed + 1
                    /\ events' = ProgressEvents(parsed + 1)
                    /\ UNCHANGED cached
            /\ recipecache' = [recipecache EXCEPT ![Head(fromcache)] = @ + 1]
            /\ pn_ret' = TRUE
            /\ uc_pc' = "post"
            /\ UNCHANGED <<error, toparse, genDone, result_queue, failed, sdvars,
                           feeder_quit, parser_quit>>
       ELSE IF WorkerStreamDrained
       THEN /\ genDone' = (toparse > 0)
            /\ IF ShutdownNoop
               THEN /\ pn_ret' = FALSE
                    /\ uc_pc' = "post"
                    /\ events' = <<>>
                    /\ UNCHANGED <<sdvars, feeder_quit, parser_quit>>
               ELSE /\ CookerParser_shutdown(TRUE, FALSE)
                    /\ UNCHANGED pn_ret
            /\ UNCHANGED <<fromcache, countvars, result_queue, recipecache, failed>>
       ELSE /\ result_queue # <<>>
            /\ result_queue' = Tail(result_queue)
            /\ IF Head(result_queue).exc
               THEN /\ genDone' = TRUE
                    /\ error' = ErrorAfterFailure(error)
                    /\ failed' = failed \cup {Head(result_queue).fn}
                    /\ IF ShutdownNoop
                       THEN /\ pn_ret' = FALSE
                            /\ uc_pc' = "post"
                            /\ events' = <<>>
                            /\ UNCHANGED <<sdvars, feeder_quit, parser_quit>>
                       ELSE /\ CookerParser_shutdown(FALSE, FALSE)
                            /\ UNCHANGED pn_ret
                    /\ UNCHANGED <<parsed, current, recipecache>>
               ELSE /\ parsed' = parsed + 1
                    /\ events' = ProgressEvents(parsed + 1)
                    /\ current' = current + 1
                    /\ recipecache' = [recipecache EXCEPT ![Head(result_queue).fn] = @ + 1]
                    /\ pn_ret' = TRUE
                    /\ uc_pc' = "post"
                    /\ UNCHANGED <<error, genDone, failed, sdvars, feeder_quit, parser_quit>>
            /\ UNCHANGED <<fromcache, cached, toparse>>
    /\ UNCHANGED <<state, served, ret, postdone, sigInTick, hasparser, configvars, willparse,
                   fjob, feeder, wstate, wjob, pending, jobs, rqvars>>
    /\ UNCHANGED auxvars

\* A tick that does not look at the parser's error count.
DrainedOutcomeNoErrorCheck(err, danglingFatal) == IF danglingFatal THEN "fatal" ELSE "None"

\* What the tick does once parse_next has returned False: raise on errors, run
\* the audit (fatal on a dangling append unless warn-only), else go on.
DrainedOutcome(err, danglingFatal) ==
    IF err > 0 THEN "raise" ELSE IF danglingFatal THEN "fatal" ELSE "None"

\* The phases run before self.state = state.running, in order.
PostPhases(outcome) ==
    IF outcome = "None" THEN <<"audit", "pref", "prio">>
    ELSE IF outcome = "fatal" THEN <<"audit">> ELSE <<>>

\* The rest of updateCache after parse_next has returned.
UcPost ==
    /\ uc_pc = "post"
    /\ IF pn_ret
       THEN /\ TickEnds("True")
            /\ UNCHANGED <<state, postdone>>
       ELSE \E danglingFatal \in BOOLEAN :
            LET outcome == DrainedOutcome(error, danglingFatal) IN
            /\ TickEnds(outcome)
            /\ postdone' = PostPhases(outcome)
            /\ state' = IF outcome = "None" THEN "running" ELSE state
    /\ events' = <<>>
    /\ UNCHANGED <<served, pn_ret, hasparser, configvars, feedervars, workervars, countvars,
                   sdvars, fromcache, genDone, jobs, result_queue, recipecache, failed,
                   rqvars>>
    /\ UNCHANGED auxvars

----
\* Feeder.run.

\* A feeder that drops the job that found the channel full.
FeederRequeueDrop(lst, job) == lst

\* self.jobs.insert(0, job): the job that found the channel full goes back.
FeederRequeue(lst, job) == <<job>> \o lst

\* The top of the feeder's loop: the quit check, then jobs.pop().
FeederTop ==
    /\ feeder = "top"
    /\ IF feeder_quit # <<>>
       THEN /\ feeder_quit' = Tail(feeder_quit)
            /\ feeder' = "exited"
            /\ UNCHANGED <<willparse, fjob>>
       ELSE IF willparse = <<>>
       THEN /\ feeder' = "exited"
            /\ UNCHANGED <<willparse, fjob, feeder_quit>>
       ELSE /\ fjob' = willparse[Len(willparse)]
            /\ willparse' = SubSeq(willparse, 1, Len(willparse) - 1)
            /\ feeder' = "putting"
            /\ UNCHANGED feeder_quit
    /\ events' = <<>>
    /\ UNCHANGED <<state, served, uc_pc, ret, pn_ret, postdone, sigInTick, hasparser, configvars,
                   workervars, countvars, sdvars, fromcache, genDone, jobs, result_queue,
                   recipecache, failed, rqvars>>
    /\ UNCHANGED auxvars

\* self.to_parsers.put(job, timeout=0.5): the job goes on the channel, or the
\* channel stayed full and the job is re-queued.
FeederPut ==
    /\ feeder = "putting"
    /\ IF Len(jobs) < num_processes
       THEN /\ jobs' = Append(jobs, fjob)
            /\ UNCHANGED willparse
       ELSE /\ willparse' = FeederRequeue(willparse, fjob)
            /\ UNCHANGED jobs
    /\ fjob' = Sentinel
    /\ feeder' = "top"
    /\ events' = <<>>
    /\ UNCHANGED <<state, served, uc_pc, ret, pn_ret, postdone, sigInTick, hasparser, configvars,
                   feeder_quit, workervars, countvars, sdvars, fromcache, genDone,
                   result_queue, recipecache, failed, rqvars>>
    /\ UNCHANGED auxvars

----
\* Parser.realrun and Parser.parse.

\* Parser.parse: (True, infos), or (True, exception) naming the recipe.
Parser_parse(filename) == [fn |-> filename, exc |-> filename \in badSet]

\* A worker that ends when the parser raised.
WorkerEndsOnFailure(result) == IF result.exc THEN "exited" ELSE "top"

\* Where realrun goes after parse returned: back to the top of its loop.
WorkerAfterParse(result) == "top"

\* self.results.put(result, timeout=0.25) with a Queue.Full fallback that keeps
\* what the buffer held.
PutResultKeep(w, result) ==
    IF Len(result_queue) < results_maxsize
    THEN /\ result_queue' = Append(result_queue, result)
         /\ pending' = [pending EXCEPT ![w] = <<>>]
    ELSE /\ pending' = [pending EXCEPT ![w] = Append(@, result)]
         /\ UNCHANGED result_queue

\* self.results.put(result, timeout=0.25) with the Queue.Full fallback.
PutResult(w, result) ==
    IF Len(result_queue) < results_maxsize
    THEN /\ result_queue' = Append(result_queue, result)
         /\ pending' = [pending EXCEPT ![w] = <<>>]
    ELSE /\ pending' = [pending EXCEPT ![w] = <<result>>]
         /\ UNCHANGED result_queue

\* The top of a worker's loop: the quit check, then a buffered result if any.
WorkerTop(w) ==
    /\ wstate[w] = "top"
    /\ IF parser_quit > 0
       THEN /\ parser_quit' = parser_quit - 1
            /\ wstate' = [wstate EXCEPT ![w] = "exited"]
            /\ UNCHANGED <<pending, result_queue>>
       ELSE IF pending[w] # <<>>
       THEN /\ PutResult(w, pending[w][Len(pending[w])])
            /\ UNCHANGED <<parser_quit, wstate>>
       ELSE /\ wstate' = [wstate EXCEPT ![w] = "getting"]
            /\ UNCHANGED <<parser_quit, pending, result_queue>>
    /\ events' = <<>>
    /\ UNCHANGED <<state, served, uc_pc, ret, pn_ret, postdone, sigInTick, hasparser, configvars,
                   feedervars, wjob, countvars, sdvars, fromcache, genDone, jobs,
                   recipecache, failed, rqvars>>
    /\ UNCHANGED auxvars

\* self.jobs.get(timeout=0.25): Queue.Empty, the job None, or a job to parse.
WorkerGet(w) ==
    /\ wstate[w] = "getting"
    /\ IF jobs = <<>>
       THEN /\ wstate' = [wstate EXCEPT ![w] = "top"]
            /\ UNCHANGED <<jobs, wjob>>
       ELSE /\ jobs' = Tail(jobs)
            /\ IF Head(jobs) = Sentinel
               THEN /\ wstate' = [wstate EXCEPT ![w] = "exited"]
                    /\ UNCHANGED wjob
               ELSE /\ wstate' = [wstate EXCEPT ![w] = "parsing"]
                    /\ wjob' = [wjob EXCEPT ![w] = Head(jobs)]
    /\ events' = <<>>
    /\ UNCHANGED <<state, served, uc_pc, ret, pn_ret, postdone, sigInTick, hasparser, configvars,
                   feedervars, parser_quit, pending, countvars, sdvars, fromcache, genDone,
                   result_queue, recipecache, failed, rqvars>>
    /\ UNCHANGED auxvars

\* result = self.parse(*job), then the put.
WorkerPublish(w) ==
    /\ wstate[w] = "parsing"
    /\ PutResult(w, Parser_parse(wjob[w]))
    /\ wstate' = [wstate EXCEPT ![w] = WorkerAfterParse(Parser_parse(wjob[w]))]
    /\ wjob' = [wjob EXCEPT ![w] = Sentinel]
    /\ events' = <<>>
    /\ UNCHANGED <<state, served, uc_pc, ret, pn_ret, postdone, sigInTick, hasparser, configvars,
                   feedervars, parser_quit, countvars, sdvars, fromcache, genDone, jobs,
                   recipecache, failed, rqvars>>
    /\ UNCHANGED auxvars

----
\* buildTargets and its idle callback.

\* The command in flight runs once the cache is up to date: the run queue is
\* built and buildTargetsIdle registered.
BuildTargets ==
    /\ served
    /\ uc_pc = "idle"
    /\ state = "running"
    /\ rq = "none"
    /\ rq' = "active"
    /\ rq_failed' = 0
    /\ events' = <<"BuildStarted">>
    /\ UNCHANGED <<state, served, uc_pc, ret, pn_ret, postdone, sigInTick, hasparser, configvars,
                   feedervars, workervars, countvars, sdvars, fromcache, genDone, jobs,
                   result_queue, recipecache, failed>>
    /\ UNCHANGED auxvars

\* The run queue after the callback asked it to finish, or not.
RunQueueAfter(st, q) == IF st \in {"shutdown", "forceshutdown"} THEN "finishing" ELSE q

\* What rq.execute_runqueue() can do with nfailed failed tasks: go on (a true
\* value), end (False when no task failed, TaskFailure carrying the failed tasks
\* otherwise), or raise SystemExit / BBHandledException.
RunQueueOutcomes(nfailed) ==
    IF nfailed = 0 THEN {"True", "False", "Handled"} ELSE {"True", "TaskFailure", "Handled"}

\* A callback that reports no failure.
FailuresIgnored(retval, nfailed) == 0

\* failures = 0, and failures += len(exc.args) on TaskFailure.
FailuresOf(retval, nfailed) == IF retval = "TaskFailure" THEN nfailed ELSE 0

\* bb.event.BuildCompleted(total, buildname, targets, failures).
BuildCompleted(failures) == "BuildCompleted failures=" \o ToString(failures)

\* One buildTargetsIdle (or buildFileIdle) call: retval is what execute_runqueue
\* gives back; on a tick that goes on one more task may have failed.
BuildTargetsIdle ==
    /\ uc_pc = "idle"
    /\ rq # "none"
    /\ \E retval \in RunQueueOutcomes(rq_failed) :
         IF retval = "True"
         THEN /\ rq' = RunQueueAfter(state, rq)
              /\ \E n \in {rq_failed, rq_failed + 1} :
                     /\ n <= MaxFailures
                     /\ rq_failed' = n
              /\ events' = <<>>
              /\ UNCHANGED <<state, ret>>
         ELSE /\ rq' = "none"
              /\ rq_failed' = 0
              /\ events' = IF retval = "Handled" THEN <<>>
                            ELSE <<BuildCompleted(FailuresOf(retval, rq_failed))>>
              /\ state' = finishAsyncCommand
              /\ ret' = "none"
    /\ UNCHANGED <<served, uc_pc, pn_ret, postdone, sigInTick, hasparser, configvars, feedervars,
                   workervars, countvars, sdvars, fromcache, genDone, jobs, result_queue,
                   recipecache, failed>>
    /\ UNCHANGED auxvars

----
Next ==
    \/ PreServe
    \/ \E signum \in Signals : Signal(signum)
    \/ \E force \in BOOLEAN : CookerShutdown(force)
    \/ FinishCommand
    \/ UcEnter
    \/ Uc1294
    \/ UcConfig
    \/ UcParseNext
    \/ SdPut
    \/ SdJoinW
    \/ SdJoinF
    \/ UcPost
    \/ FeederTop
    \/ FeederPut
    \/ \E w \in Workers : WorkerTop(w)
    \/ \E w \in Workers : WorkerGet(w)
    \/ \E w \in Workers : WorkerPublish(w)
    \/ BuildTargets
    \/ BuildTargetsIdle

Spec == Init /\ [][Next]_vars

\* The cooker whose cache can report a miss, or raise, on loading a file that
\* CookerParser.__init__ put in fromcache.
MissInit ==
    /\ MachineWith(ResultsCap)
    /\ cache_load \in [1..MaxFiles -> {"hit", "miss", "raise"}]
    /\ \A f \in 1..MaxFiles : f \notin validSet => cache_load[f] = "hit"
    /\ observe_only = FALSE
    /\ lock_owner = 1
    /\ ctor_pc = [c \in Cookers |-> IF c = 1 THEN "ready" ELSE "none"]
    /\ LayersIdle

MissSpec == MissInit /\ [][Next]_vars

\* A results channel scaled down with the number of files, so that a put finds
\* it full.
SmallCap == 1

\* The cooker whose workers are given a results channel of that capacity.
BufferInit ==
    /\ MachineWith(SmallCap)
    /\ cache_load = [f \in 1..MaxFiles |-> "hit"]
    /\ observe_only = FALSE
    /\ lock_owner = 1
    /\ ctor_pc = [c \in Cookers |-> IF c = 1 THEN "ready" ELSE "none"]
    /\ LayersIdle

BufferSpec == BufferInit /\ [][Next]_vars

\* The parse run alone, under the scheduling the host gives it: the event loop
\* keeps calling the idle callback, and the feeder and every worker keep running.
InitLive == Init /\ badSet = {}

DriverStep ==
    \/ PreServe
    \/ UcEnter
    \/ Uc1294
    \/ UcConfig
    \/ UcParseNext
    \/ SdPut
    \/ SdJoinW
    \/ SdJoinF
    \/ UcPost

FeederStep == FeederTop \/ FeederPut

WorkerStep(w) == WorkerTop(w) \/ WorkerGet(w) \/ WorkerPublish(w)

NextLive ==
    \/ DriverStep
    \/ FeederStep
    \/ \E w \in Workers : WorkerStep(w)

LiveSpec ==
    /\ InitLive
    /\ [][NextLive]_vars
    /\ WF_vars(DriverStep)
    /\ WF_vars(FeederStep)
    /\ \A w \in Workers : WF_vars(WorkerStep(w))

----
\* BBCooker.setFeatures.

\* CookerFeatures._feature_list = range(4).
FeatureCount == 4

Features == 0..(FeatureCount - 1)

\* What a caller may ask for: the supported features and one that is not.
FeatureRequests == 0..FeatureCount

\* CookerFeatures.setFeature for every requested feature: unsupported ones are
\* ignored.
setFeature(fset, features) == fset \cup (features \cap Features)

\* A setFeatures that accepts the change in every state.
FeatureChangeAlways(st) == TRUE

\* if self.state != state.initial: raise Exception(...)
FeatureChangeAllowed(st) == st = "initial"

\* One setFeatures call, a command served between two ticks; a changed feature
\* set resets the cooker: initConfigurationData builds the configuration data
\* anew and assigns state.initial.
SetFeatures(features) ==
    /\ uc_pc = "idle"
    /\ IF ~FeatureChangeAllowed(state)
       THEN /\ sf_ret' = "raise"
            /\ UNCHANGED <<state, featureset, cfg_features>>
       ELSE /\ sf_ret' = "ok"
            /\ featureset' = setFeature(featureset, features)
            /\ IF setFeature(featureset, features) # featureset
               THEN /\ cfg_features' = setFeature(featureset, features)
                    /\ state' = "initial"
               ELSE UNCHANGED <<state, cfg_features>>
    /\ events' = <<>>
    /\ UNCHANGED <<served, uc_pc, ret, pn_ret, postdone, sigInTick, hasparser, configvars,
                   feedervars, workervars, countvars, sdvars, fromcache, genDone, jobs,
                   result_queue, recipecache, failed, rqvars>>
    /\ UNCHANGED <<lockvars, purevars, sidevars>>

\* The cooker with one recipe and one worker, serving setFeatures commands
\* between its ticks.
FeatureInit ==
    /\ Init
    /\ filelist = <<1>>
    /\ validSet = {}
    /\ num_processes = 1

FeatureNext ==
    \/ Next
    \/ \E features \in SUBSET FeatureRequests : SetFeatures(features)

FeatureSpec == FeatureInit /\ [][FeatureNext]_vars

----
\* BBCooker.__init__ in several processes against one build directory.

\* bb.utils.lockfile(lockfile, False, False): an exclusive, non-blocking lock;
\* the holder after the attempt of cooker c.
lockfile(owner, c) == IF owner = 0 THEN c ELSE owner

\* A constructor that goes on without the lock.
LockNeverRefused(owner, c) == FALSE

\* if not self.lock: bb.fatal("Only one copy of bitbake should be run ...")
LockRefused(owner, c) == owner # c

\* featureset, configuration, initConfigurationData (which assigns state.initial).
CtorConfigure(c) ==
    /\ ctor_pc[c] = "start"
    /\ ctor_pc' = [ctor_pc EXCEPT ![c] = "configured"]
    /\ UNCHANGED <<machinevars, sidevars, featvars, lock_owner, purevars>>

\* The lock attempt and the fatal error when it fails.
CtorLock(c) ==
    /\ ctor_pc[c] = "configured"
    /\ lock_owner' = lockfile(lock_owner, c)
    /\ ctor_pc' = [ctor_pc EXCEPT ![c] =
                       IF LockRefused(lockfile(lock_owner, c), c) THEN "failed" ELSE "locked"]
    /\ UNCHANGED <<machinevars, sidevars, featvars, purevars>>

\* The rest of the constructor: the lock file's content, the terminal, the
\* command object, state.initial, parser = None, the signal handlers.
CtorFinish(c) ==
    /\ ctor_pc[c] = "locked"
    /\ ctor_pc' = [ctor_pc EXCEPT ![c] = "ready"]
    /\ UNCHANGED <<machinevars, sidevars, featvars, lock_owner, purevars>>

\* A constructed cooker serves.
Serve ==
    /\ \E c \in Cookers : ctor_pc[c] = "ready"
    /\ Next

LockInit ==
    /\ MachineInit
    /\ filelist = <<1>>
    /\ validSet = {}
    /\ num_processes = 1
    /\ lock_owner = 0
    /\ ctor_pc = [c \in Cookers |-> "start"]
    /\ LayersIdle

LockNext ==
    \/ \E c \in Cookers : CtorConfigure(c)
    \/ \E c \in Cookers : CtorLock(c)
    \/ \E c \in Cookers : CtorFinish(c)
    \/ Serve

LockSpec == LockInit /\ [][LockNext]_vars

----
\* BBCooker.handleCollections: the priorities of the layers.

\* The integers a layer may declare as its BBFILE_PRIORITY.
PrioValues == {-1, 0, 5}

\* Python's "not x" for None or an integer.
Falsy(p) == p = None \/ p = <<0>>

\* if min_prio == 0 or prio < min_prio: min_prio = prio
MinPrioAfter(mp, prio) == IF mp = 0 \/ prio < mp THEN prio ELSE mp

\* A layer named in a LAYERDEPENDS that is not in BBFILE_COLLECTIONS.
NotEnabled == MaxLayers + 1

\* The interpreter ends a recursion deeper than its recursion limit with a
\* RuntimeError.  A chain of dependencies without a cycle is at most
\* MaxLayers + 1 calls deep (every enabled layer, then one that is not enabled),
\* so a recursion that passes this depth is one that follows a cycle and would
\* pass any limit.
RecursionLimit == MaxLayers + 1

\* The first loop over the layers of list: min_prio.
RECURSIVE ScanMinPrio(_, _, _)
ScanMinPrio(declared, list, mp) ==
    IF list = <<>> THEN mp
    ELSE LET c == Head(list)
         IN  ScanMinPrio(declared, Tail(list),
                         IF declared[c] # None THEN MinPrioAfter(mp, declared[c][1]) ELSE mp)

\* The first loop's errors: a dependency that is not enabled, or a dependency
\* enabled with another version than the one asked for.
ScanErrors ==
    \E c \in Layers : NotEnabled \in layer_deps[c] \/ c \in layer_vermismatch

\* The elements of a set of layers as a list.
RECURSIVE ListOf(_)
ListOf(S) ==
    IF S = {} THEN <<>>
    ELSE LET m == CHOOSE x \in S : \A y \in S : x <= y
         IN  <<m>> \o ListOf(S \ {m})

\* A call that works out a layer's priority from the priorities its
\* dependencies have at the time, without recursing into them.
CalcShallow(prios, collection, depth) ==
    IF ~Falsy(prios[collection]) THEN [p |-> prios, exc |-> "none"]
    ELSE LET known == {prios[d][1] : d \in {e \in layer_deps[collection] \cap Layers : prios[e] # None}}
             top == CHOOSE m \in known \cup {min_prio} : \A v \in known \cup {min_prio} : v <= m
         IN  [p |-> [prios EXCEPT ![collection] = <<top + 1>>], exc |-> "none"]

\* calc_layer_priority(collection) on the dictionary prios, at the given depth
\* of recursion, and its loop over the dependencies (DepLoop, with the running
\* max_depprio).  Both give the dictionary afterwards and the exception that
\* ended the call, if any: the lookup of a layer that is not in the dictionary
\* raises KeyError.
RECURSIVE calc_layer_priority(_, _, _)
RECURSIVE DepLoop(_, _, _, _)
DepLoop(prios, todo, max_depprio, depth) ==
    IF todo = <<>> THEN [p |-> prios, m |-> max_depprio, exc |-> "none"]
    ELSE LET after == calc_layer_priority(prios, Head(todo), depth + 1)
         IN  IF after.exc # "none" THEN [p |-> after.p, m |-> max_depprio, exc |-> after.exc]
             ELSE LET depprio == after.p[Head(todo)][1]
                  IN  DepLoop(after.p, Tail(todo),
                              IF depprio > max_depprio THEN depprio ELSE max_depprio, depth)

calc_layer_priority(prios, collection, depth) ==
    IF depth > RecursionLimit THEN [p |-> prios, exc |-> "RuntimeError"]
    ELSE IF collection \notin Layers THEN [p |-> prios, exc |-> "KeyError"]
    ELSE IF ~Falsy(prios[collection]) THEN [p |-> prios, exc |-> "none"]
    ELSE LET r == DepLoop(prios, ListOf(layer_deps[collection]), min_prio, depth)
         IN  IF r.exc # "none" THEN [p |-> r.p, exc |-> r.exc]
             ELSE [p |-> [r.p EXCEPT ![collection] = <<r.m + 1>>], exc |-> "none"]

\* The second loop over the layers of list: each layer's priority, then its
\* entry (layer, pattern, priority) in bbfile_config_priorities, or an error
\* and no entry when BBFILE_PATTERN_<layer> is undefined or does not compile.
\* The loop ends at the first exception.
RECURSIVE CalcAll(_, _)
CalcAll(prios, list) ==
    IF list = <<>> THEN [p |-> prios, exc |-> "none", cfg |-> <<>>, errors |-> FALSE]
    ELSE LET c == Head(list)
             r == calc_layer_priority(prios, c, 1)
         IN  IF r.exc # "none"
             THEN [p |-> r.p, exc |-> r.exc, cfg |-> <<>>, errors |-> FALSE]
             ELSE LET rest == CalcAll(r.p, Tail(list))
                      entry == IF layer_pattern[c] = None THEN <<>>
                               ELSE <<[c |-> c, regex |-> layer_pattern[c], pri |-> r.p[c][1]]>>
                  IN  [p |-> rest.p, exc |-> rest.exc, cfg |-> entry \o rest.cfg,
                       errors |-> rest.errors \/ layer_pattern[c] = None]

\* The first loop: the declared priorities, min_prio and the errors found in
\* the dependencies.
HcScan ==
    /\ hc_pc = "start"
    /\ collection_priorities' = layer_declared
    /\ min_prio' = ScanMinPrio(layer_declared, collection_list, 0)
    /\ errors' = ScanErrors
    /\ hc_pc' = "scanned"
    /\ UNCHANGED <<layerinputs, hc_result, bbfile_config_priorities, collectvars>>
    /\ UNCHANGED <<machinevars, sidevars, featvars, lockvars, targetvars>>

\* The second loop and the end of handleCollections: every layer's priority and
\* entry, then CollectionError when an error was recorded; an exception raised
\* inside the loop leaves handleCollections at once.
HcCalc ==
    /\ hc_pc = "scanned"
    /\ LET r == CalcAll(collection_priorities, collection_list)
       IN  /\ collection_priorities' = r.p
           /\ bbfile_config_priorities' = r.cfg
           /\ errors' = (errors \/ r.errors)
           /\ hc_result' = IF r.exc # "none" THEN r.exc
                           ELSE IF errors \/ r.errors THEN "CollectionError"
                           ELSE "ok"
    /\ hc_pc' = "done"
    /\ UNCHANGED <<layerinputs, min_prio, collectvars>>
    /\ UNCHANGED <<machinevars, sidevars, featvars, lockvars, targetvars>>

\* The layers reached from the layers of S in at most n steps.
RECURSIVE Closure(_, _, _)
Closure(deps, S, n) ==
    IF n = 0 THEN S ELSE Closure(deps, S \cup UNION {deps[x] : x \in S}, n - 1)

Acyclic(deps) == \A c \in Layers : c \notin Closure(deps, deps[c], MaxLayers)

\* Every layer configuration without a dependency cycle: each layer declares a
\* priority or none and depends on any of the other layers.
LayerInit ==
    /\ MachineInit
    /\ filelist = <<>>
    /\ num_processes = 1
    /\ lock_owner = 1
    /\ ctor_pc = [c \in Cookers |-> IF c = 1 THEN "ready" ELSE "none"]
    /\ collection_list = ListOrder
    /\ layer_deps \in [Layers -> SUBSET Layers]
    /\ Acyclic(layer_deps)
    /\ layer_vermismatch = {}
    /\ layer_declared \in [Layers -> {None} \cup {<<v>> : v \in PrioValues}]
    /\ layer_pattern = OwnPatterns
    /\ CollectIdle
    /\ HcStart
    /\ TargetIdle

LayerNext == HcScan \/ HcCalc

LayerSpec == LayerInit /\ [][LayerNext]_vars

\* The orders BBFILE_COLLECTIONS can list the layers in.
Perms == {list \in [1..MaxLayers -> Layers] : \A i, j \in 1..MaxLayers : i # j => list[i] # list[j]}

\* Every layer configuration without explicit priorities and without a
\* dependency cycle, with the layers listed in any order.
PermInit ==
    /\ MachineInit
    /\ filelist = <<>>
    /\ num_processes = 1
    /\ lock_owner = 1
    /\ ctor_pc = [c \in Cookers |-> IF c = 1 THEN "ready" ELSE "none"]
    /\ collection_list \in Perms
    /\ layer_deps \in [Layers -> SUBSET Layers]
    /\ Acyclic(layer_deps)
    /\ layer_vermismatch = {}
    /\ layer_declared = [c \in Layers |-> None]
    /\ layer_pattern = OwnPatterns
    /\ CollectIdle
    /\ HcStart
    /\ TargetIdle

PermSpec == PermInit /\ [][LayerNext]_vars

\* The dependencies on enabled layers, and those of them that start at a layer
\* without a declared priority.
EnabledDeps == [c \in Layers |-> layer_deps[c] \cap Layers]

UndeclaredDeps == [c \in Layers |-> IF layer_declared[c] = None THEN EnabledDeps[c] ELSE {}]

\* Layer configurations with at most one dependency a layer: on itself, on
\* another layer (also around a cycle), with or without a version that
\* mismatches, or on a layer that is not enabled.
DepInit ==
    /\ MachineInit
    /\ filelist = <<>>
    /\ num_processes = 1
    /\ lock_owner = 1
    /\ ctor_pc = [c \in Cookers |-> IF c = 1 THEN "ready" ELSE "none"]
    /\ collection_list = ListOrder
    /\ layer_deps \in [Layers -> {{}} \cup {{d} : d \in Layers \cup {NotEnabled}}]
    /\ layer_vermismatch \in SUBSET {c \in Layers : EnabledDeps[c] # {}}
    /\ layer_declared \in [Layers -> {None, <<5>>}]
    /\ layer_pattern = OwnPatterns
    /\ CollectIdle
    /\ HcStart
    /\ TargetIdle

DepSpec == DepInit /\ [][LayerNext]_vars

\* The file name extensions, character by character.
BB == <<".", "b", "b">>

BBAPPEND == <<".", "b", "b", "a", "p", "p", "e", "n", "d">>

\* str.endswith and str.startswith.
endswith(str, suffix) ==
    /\ Len(suffix) <= Len(str)
    /\ SubSeq(str, Len(str) - Len(suffix) + 1, Len(str)) = suffix

startswith(str, prefix) ==
    /\ Len(prefix) <= Len(str)
    /\ SubSeq(str, 1, Len(prefix)) = prefix

\* regex.match(filename) for a pattern "^<directories>/": the pattern's
\* directories are the first directories of the file's path.
match(regex, filename) ==
    /\ Len(regex) <= Len(filename.dir)
    /\ SubSeq(filename.dir, 1, Len(regex)) = regex

\* The priority of the last entry whose pattern matches.
CalcLastMatch(priorities, filename) ==
    LET hits == {i \in 1..Len(priorities) : match(priorities[i].regex, filename)}
    IN  IF hits = {} THEN 0
        ELSE priorities[CHOOSE i \in hits : \A j \in hits : j <= i].pri

\* calc_bbfile_priority(filename) of a CookerCollectFiles built on priorities.
RECURSIVE calc_bbfile_priority(_, _)
calc_bbfile_priority(priorities, filename) ==
    IF priorities = <<>> THEN 0
    ELSE IF match(Head(priorities).regex, filename) THEN Head(priorities).pri
    ELSE calc_bbfile_priority(Tail(priorities), filename)

\* The patterns a layer can have: its own directory, the directory of layer 1,
\* a directory inside the directory of layer 1, or none that is usable.
PatternChoices(c) == {None, <<c>>, <<1>>, <<1, 1>>}

\* The files whose priority is asked for: in a layer's directory, in a
\* directory inside it, or outside every layer.
PrioFiles ==
    {Path(<<c, d>>, <<"a">>) : c \in Layers \cup {NotEnabled}, d \in {1, 2}}

\* A call of calc_bbfile_priority on the collection of the configuration that
\* handleCollections accepted.
CalcBbfilePriority(filename) ==
    /\ hc_pc = "done"
    /\ hc_result = "ok"
    /\ pri_ret' = <<filename, calc_bbfile_priority(bbfile_config_priorities, filename)>>
    /\ UNCHANGED <<collectinputs, appendlist, overlayed, cb_ret, cb_pc>>
    /\ UNCHANGED <<appliedappendlist, gfa_ret>>
    /\ UNCHANGED <<layervars, machinevars, sidevars, featvars, lockvars, targetvars>>

\* Layers in any order, each with a declared priority and a pattern.
PrioInit ==
    /\ MachineInit
    /\ filelist = <<>>
    /\ num_processes = 1
    /\ lock_owner = 1
    /\ ctor_pc = [c \in Cookers |-> IF c = 1 THEN "ready" ELSE "none"]
    /\ collection_list \in Perms
    /\ layer_deps = [c \in Layers |-> {}]
    /\ layer_vermismatch = {}
    /\ layer_declared \in [Layers -> {<<6>>, <<7>>}]
    /\ layer_pattern \in [Layers -> UNION {PatternChoices(c) : c \in Layers}]
    /\ \A c \in Layers : layer_pattern[c] \in PatternChoices(c)
    /\ CollectIdle
    /\ HcStart
    /\ TargetIdle

PrioNext == HcScan \/ HcCalc \/ \E filename \in PrioFiles : CalcBbfilePriority(filename)

PrioSpec == PrioInit /\ [][PrioNext]_vars

\* The files there can be on disk: the recipe a.bb in the directories of layers
\* 1 and 2, a recipe b.bb, the appends a.bbappend and ab%.bbappend, a file with
\* another extension, and the append a.bb_%.bbappend.
Disk ==
    << Path(<<1>>, <<"a">> \o BB),
       Path(<<2>>, <<"a">> \o BB),
       Path(<<2>>, <<"b">> \o BB),
       Path(<<1>>, <<"a">> \o BBAPPEND),
       Path(<<2>>, <<"a", "b", "%">> \o BBAPPEND),
       Path(<<1>>, <<"a", ".", "i", "n", "c">>),
       Path(<<2>>, <<"a">> \o BB \o <<"_", "%">> \o BBAPPEND) >>

\* The existing files in the order the file system lists them.
Listing ==
    LET idx == ListOf(fs)
    IN  [i \in 1..Len(idx) |-> Disk[idx[IF fs_reversed THEN Len(idx) + 1 - i ELSE i]]]

\* An entry of BBFILES: a glob for every file below a directory, a directory,
\* or the path of one file.
Entry(kind, dir, base) == [kind |-> kind, dir |-> dir, base |-> base]

\* glob.glob(f), with the literal path when nothing matched and f exists; for
\* a directory, the files os.walk finds below it.
glob(f) ==
    SelectSeq(Listing, LAMBDA g : /\ match(f.dir, g)
                                  /\ f.kind = "file" => g = Path(f.dir, f.base))

\* get_bbfiles(): the .bb files of the current directory, the directory of
\* layer 1.
get_bbfiles ==
    LET here == SelectSeq(Listing, LAMBDA g : g.dir = <<1>> /\ endswith(g.base, BB))
    IN  [i \in 1..Len(here) |-> Entry("file", here[i].dir, here[i].base)]

\* files.sort(key = calc_bbfile_priority): ascending and stable.
RECURSIVE SortedBy(_, _)
SortedBy(files, keys) ==
    IF keys = {} THEN <<>>
    ELSE LET k == CHOOSE x \in keys : \A y \in keys : x <= y
         IN  SelectSeq(files, LAMBDA f : calc_bbfile_priority(bbfile_config_priorities, f) = k)
                 \o SortedBy(files, keys \ {k})

sort(files) ==
    SortedBy(files, {calc_bbfile_priority(bbfile_config_priorities, f) : f \in Range(files)})

\* for g in found: if g not in newfiles: newfiles.append(g)
RECURSIVE AddNew(_, _)
AddNew(newfiles, found) ==
    IF found = <<>> THEN newfiles
    ELSE AddNew(IF Head(found) \in Range(newfiles) THEN newfiles
                ELSE Append(newfiles, Head(found)),
                Tail(found))

\* The loop that expands the entries into newfiles.  For a directory
\* find_bbfiles calls f.endswith(['.bb', '.bbappend']) on each file below it,
\* which raises TypeError because the argument is a list.
RECURSIVE Expand(_, _)
Expand(files, newfiles) ==
    IF files = <<>> THEN [exc |-> "none", newfiles |-> newfiles]
    ELSE LET f == Head(files)
         IN  IF f.kind = "dir"
             THEN IF glob(f) # <<>> THEN [exc |-> "TypeError", newfiles |-> newfiles]
                  ELSE Expand(Tail(files), newfiles)
             ELSE Expand(Tail(files), AddNew(newfiles, glob(f)))

\* bbmask_compiled.search(f) for a mask that names a directory.
search(mask, f) == mask.kind = "regex" /\ match(mask.dir, f)

\* dict[key].append(value), the key created with an empty list when missing.
DictAppend(dict, key, value) ==
    [k \in DOMAIN dict \cup {key} |->
        IF k = key THEN (IF key \in DOMAIN dict THEN dict[key] ELSE <<>>) \o <<value>>
        ELSE dict[k]]

\* os.path.basename(f).replace('.bbappend', '.bb') for a name that ends in
\* .bbappend.
AppendKey(f) == SubSeq(f.base, 1, Len(f.base) - Len(BBAPPEND)) \o BB

\* The loop that files the .bbappend files under their keys.
RECURSIVE BuildAppends(_, _)
BuildAppends(bbappend, dict) ==
    IF bbappend = <<>> THEN dict
    ELSE LET f == Head(bbappend)
             base == AppendKey(f)
         IN  BuildAppends(Tail(bbappend),
                          IF base \in DOMAIN dict /\ f \in Range(dict[base]) THEN dict
                          ELSE DictAppend(dict, base, f))

\* The loop over reversed(bbfiles): the first file seen with a basename is its
\* top file, every later one is appended to the top file's list.
RECURSIVE FindOverlayed(_, _, _)
FindOverlayed(files, bbfile_seen, dict) ==
    IF files = <<>> THEN dict
    ELSE LET f == Head(files)
             base == f.base
         IN  IF base \notin DOMAIN bbfile_seen
             THEN FindOverlayed(Tail(files),
                                [k \in DOMAIN bbfile_seen \cup {base} |->
                                    IF k = base THEN f ELSE bbfile_seen[k]],
                                dict)
             ELSE FindOverlayed(Tail(files), bbfile_seen, DictAppend(dict, bbfile_seen[base], f))

Reverse(seq) == [i \in 1..Len(seq) |-> seq[Len(seq) + 1 - i]]

\* collect_bbfiles under the mask bbmask: what it returns or raises and the
\* appendlist and overlayed it leaves on the object.
collect_bbfiles(bbmask) ==
    LET sorted == sort(BBFILES)
        files == IF sorted = <<>> THEN get_bbfiles ELSE sorted
        expanded == Expand(files, <<>>)
        newfiles == expanded.newfiles
        kept == SelectSeq(newfiles, LAMBDA f : ~search(bbmask, f))
        bbfiles == SelectSeq(kept, LAMBDA f : endswith(f.base, BB))
        bbappend == SelectSeq(kept, LAMBDA f : ~endswith(f.base, BB) /\ endswith(f.base, BBAPPEND))
    IN  IF expanded.exc # "none"
        THEN [ret |-> [exc |-> expanded.exc, bbfiles |-> <<>>, masked |-> 0],
              appendlist |-> appendlist, overlayed |-> overlayed]
        ELSE IF bbmask.kind = "invalid"
        THEN [ret |-> [exc |-> "none", bbfiles |-> newfiles, masked |-> 0],
              appendlist |-> appendlist, overlayed |-> overlayed]
        ELSE [ret |-> [exc |-> "none", bbfiles |-> bbfiles, masked |-> Len(newfiles) - Len(kept)],
              appendlist |-> BuildAppends(bbappend, appendlist),
              overlayed |-> <<FindOverlayed(Reverse(bbfiles), EmptyDict, EmptyDict)>>]

\* The cooker builds a CookerCollectFiles on the priorities handleCollections
\* accepted and collects the files.
CollectBbfiles ==
    /\ hc_pc = "done"
    /\ hc_result = "ok"
    /\ cb_pc = "start"
    /\ LET r == collect_bbfiles(BBMASK)
       IN  /\ cb_ret' = r.ret
           /\ appendlist' = r.appendlist
           /\ overlayed' = r.overlayed
    /\ cb_pc' = "done"
    /\ UNCHANGED <<pri_ret, collectinputs, appliedappendlist, gfa_ret>>
    /\ UNCHANGED <<layervars, machinevars, sidevars, featvars, lockvars, targetvars>>

\* The entries BBFILES is made of: a glob below one layer's directory, a glob
\* across the directories of all layers, a directory.
Entries ==
    {Entry("glob", <<1>>, <<"*">>), Entry("glob", <<2>>, <<"*">>),
     Entry("glob", <<>>, <<"*">>), Entry("dir", <<2>>, <<>>)}

Masks == {NoMask, [kind |-> "invalid", dir |-> <<>>],
          [kind |-> "regex", dir |-> <<1>>], [kind |-> "regex", dir |-> <<2>>]}

\* Layers 1 and 2 with priorities 6 or 7 each and their own directories as
\* patterns, any files on disk, listed in either order, BBFILES of up to two
\* entries and any BBMASK.
CollectInit ==
    /\ MachineInit
    /\ filelist = <<>>
    /\ num_processes = 1
    /\ lock_owner = 1
    /\ ctor_pc = [c \in Cookers |-> IF c = 1 THEN "ready" ELSE "none"]
    /\ collection_list = ListOrder
    /\ layer_deps = [c \in Layers |-> {}]
    /\ layer_vermismatch = {}
    /\ layer_declared \in [Layers -> {<<6>>, <<7>>}]
    /\ \A c \in Layers : c > 2 => layer_declared[c] = <<6>>
    /\ layer_pattern = OwnPatterns
    /\ HcStart
    /\ TargetIdle
    /\ CollectStart
    /\ fs \in SUBSET (1..Len(Disk))
    /\ fs_reversed \in BOOLEAN
    /\ BBFILES \in {<<>>} \cup {<<e>> : e \in Entries} \cup {<<e1, e2>> : e1 \in Entries, e2 \in Entries}
    /\ BBMASK \in Masks
    /\ warn_only = ""

CollectNext == HcScan \/ HcCalc \/ CollectBbfiles

CollectSpec == CollectInit /\ [][CollectNext]_vars

\* str.index(ch) counted from 0, for a string that holds ch.
index(str, ch) ==
    (CHOOSE i \in 1..Len(str) : str[i] = ch /\ \A j \in 1..(i - 1) : str[j] # ch) - 1

\* str[:n]
UpTo(str, n) == SubSeq(str, 1, IF n < Len(str) THEN n ELSE Len(str))

\* The test get_file_appends makes on a key of appendlist for the basename f.
AppendApplies(bbappend, f) ==
    \/ bbappend = f
    \/ /\ "%" \in Range(bbappend)
       /\ startswith(bbappend, UpTo(f, index(bbappend, "%")))

\* The keys of a dictionary in the order a loop over it visits them.
RECURSIVE KeysOf(_)
KeysOf(keys) ==
    IF keys = {} THEN <<>>
    ELSE LET k == CHOOSE x \in keys : TRUE IN <<k>> \o KeysOf(keys \ {k})

\* The loop of get_file_appends over the keys: the keys marked as applied and
\* the files returned.
RECURSIVE AppendLoop(_, _, _, _)
AppendLoop(todo, f, applied, found) ==
    IF todo = <<>> THEN [applied |-> applied, filelist |-> found]
    ELSE LET bbappend == Head(todo)
         IN  IF AppendApplies(bbappend, f)
             THEN AppendLoop(Tail(todo), f, Append(applied, bbappend),
                             found \o appendlist[bbappend])
             ELSE AppendLoop(Tail(todo), f, applied, found)

\* The most keys the model lets appliedappendlist hold before a call.
MaxApplied == 2

\* get_file_appends(fn) on the collection.
GetFileAppends(fn) ==
    /\ cb_pc = "done"
    /\ cb_ret.exc = "none"
    /\ Len(appliedappendlist) < MaxApplied
    /\ LET r == AppendLoop(KeysOf(DOMAIN appendlist), fn.base, appliedappendlist, <<>>)
       IN  /\ appliedappendlist' = r.applied
           /\ gfa_ret' = <<fn, r.filelist>>
    /\ UNCHANGED <<pri_ret, collectinputs, appendlist, overlayed, cb_ret, cb_pc>>
    /\ UNCHANGED <<layervars, machinevars, sidevars, featvars, lockvars, targetvars>>

\* The recipes get_file_appends is asked about: a.bb, ab.bb and b.bb in the
\* directory of layer 1.
AppendFns ==
    {Path(<<1>>, <<"a">> \o BB), Path(<<1>>, <<"a", "b">> \o BB), Path(<<1>>, <<"b">> \o BB)}

\* Any files on disk, collected through one glob across all layers, BBMASK
\* unset.
AppendInit ==
    /\ MachineInit
    /\ filelist = <<>>
    /\ num_processes = 1
    /\ lock_owner = 1
    /\ ctor_pc = [c \in Cookers |-> IF c = 1 THEN "ready" ELSE "none"]
    /\ collection_list = ListOrder
    /\ layer_deps = [c \in Layers |-> {}]
    /\ layer_vermismatch = {}
    /\ layer_declared = [c \in Layers |-> <<6>>]
    /\ layer_pattern = OwnPatterns
    /\ HcStart
    /\ TargetIdle
    /\ CollectStart
    /\ fs \in SUBSET (1..Len(Disk))
    /\ fs_reversed = FALSE
    /\ BBFILES = <<Entry("glob", <<>>, <<"*">>)>>
    /\ BBMASK = NoMask
    /\ warn_only = ""

AppendNext ==
    HcScan \/ HcCalc \/ CollectBbfiles \/ \E fn \in AppendFns : GetFileAppends(fn)

AppendSpec == AppendInit /\ [][AppendNext]_vars

\* The loop of CookerParser.__init__ over the file list: get_file_appends on
\* every file, giving the applied list afterwards.
RECURSIVE AppendsForAll(_, _)
AppendsForAll(files, applied) ==
    IF files = <<>> THEN applied
    ELSE AppendsForAll(Tail(files),
                       AppendLoop(KeysOf(DOMAIN appendlist), Head(files).base, applied, <<>>).applied)

\* str.lower() on the values BB_DANGLINGAPPENDS_WARNONLY is given here.
lower(str) ==
    IF str = "YES" THEN "yes" ELSE IF str = "True" THEN "true" ELSE str

\* bb.fatal(msg): the message is logged and an exception ends the caller.
fatal == "fatal"

\* An audit that only ever warns.
ShowAppendsWarnOnly(setting) ==
    IF \A recipe \in DOMAIN appendlist : recipe \in Range(appliedappendlist) THEN "none"
    ELSE "warn"

\* show_appends_with_no_recipes under the given BB_DANGLINGAPPENDS_WARNONLY:
\* nothing when every key of appendlist is in the applied list, else a warning
\* or bb.fatal.
show_appends_with_no_recipes(setting) ==
    IF \A recipe \in DOMAIN appendlist : recipe \in Range(appliedappendlist) THEN "none"
    ELSE IF lower(IF setting = "" THEN "no" ELSE setting) \in {"1", "yes", "true"} THEN "warn"
    ELSE fatal

\* The end of the updateCache call that collected the files: the parser is
\* built, which asks get_file_appends about every collected file, and the
\* state becomes parsing.
ParserInit ==
    /\ state = "initial"
    /\ cb_pc = "done"
    /\ cb_ret.exc = "none"
    /\ appliedappendlist' = AppendsForAll(cb_ret.bbfiles, appliedappendlist)
    /\ hasparser' = TRUE
    /\ state' = "parsing"
    /\ events' = <<>>
    /\ UNCHANGED <<served, uc_pc, ret, pn_ret, postdone, sigInTick, configvars, feedervars,
                   workervars, countvars, sdvars, fromcache, genDone, jobs, result_queue,
                   recipecache, failed, rqvars>>
    /\ UNCHANGED <<layervars, pri_ret, collectinputs, appendlist, overlayed, cb_ret, cb_pc,
                   gfa_ret, featvars, lockvars, targetvars, sidevars>>

\* The updateCache call whose parse_next returns False with no parse error, on
\* the collection built above: the audit, then the phases that end in state
\* running.  (UcPost is the same step with the parse itself modelled and the
\* audit's verdict left open.)
AuditTick ==
    /\ state = "parsing"
    /\ cb_pc = "done"
    /\ ret = "none"
    /\ LET verdict == show_appends_with_no_recipes(warn_only)
           outcome == DrainedOutcome(0, verdict = fatal)
       IN  /\ ret' = outcome
           /\ postdone' = PostPhases(outcome)
           /\ state' = IF outcome = "None" THEN "running" ELSE state
           /\ events' = IF verdict = "none" THEN <<>> ELSE <<"No recipes available">>
    /\ UNCHANGED <<served, uc_pc, pn_ret, sigInTick, hasparser, configvars, feedervars,
                   workervars, countvars, sdvars, fromcache, genDone, jobs, result_queue,
                   recipecache, failed, rqvars>>
    /\ UNCHANGED <<layervars, collectvars, featvars, lockvars, targetvars, sidevars>>

\* The values given to BB_DANGLINGAPPENDS_WARNONLY.
WarnOnlyValues == {"", "0", "no", "false", "1", "yes", "YES", "true", "True"}

\* Any files on disk, collected through one glob across all layers under no
\* mask or a mask of layer 1's directory, and any BB_DANGLINGAPPENDS_WARNONLY.
AuditInit ==
    /\ MachineInit
    /\ filelist = <<>>
    /\ num_processes = 1
    /\ lock_owner = 1
    /\ ctor_pc = [c \in Cookers |-> IF c = 1 THEN "ready" ELSE "none"]
    /\ collection_list = ListOrder
    /\ layer_deps = [c \in Layers |-> {}]
    /\ layer_vermismatch = {}
    /\ layer_declared = [c \in Layers |-> <<6>>]
    /\ layer_pattern = OwnPatterns
    /\ HcStart
    /\ TargetIdle
    /\ CollectStart
    /\ fs \in SUBSET (1..Len(Disk))
    /\ fs_reversed = FALSE
    /\ BBFILES = <<Entry("glob", <<>>, <<"*">>)>>
    /\ BBMASK \in {NoMask, [kind |-> "regex", dir |-> <<1>>]}
    /\ warn_only \in WarnOnlyValues

AuditNext == HcScan \/ HcCalc \/ CollectBbfiles \/ ParserInit \/ AuditTick

AuditSpec == AuditInit /\ [][AuditNext]_vars

----
\* CookerCollectFiles.collection_priorities.

\* calc_bbfile_priority(filename, matched): the set matched after the call, the
\* pattern of the first entry that matches added to it.
RECURSIVE calc_matched(_, _, _)
calc_matched(priorities, filename, matched) ==
    IF priorities = <<>> THEN matched
    ELSE IF match(Head(priorities).regex, filename)
         THEN matched \cup {Head(priorities).regex}
         ELSE calc_matched(Tail(priorities), filename, matched)

\* The first loop of collection_priorities: matched once every file of fns had
\* its priority calculated.
RECURSIVE MatchedBy(_, _, _)
MatchedBy(priorities, fns, matched) ==
    IF fns = {} THEN matched
    ELSE LET p == CHOOSE q \in fns : TRUE
         IN  MatchedBy(priorities, fns \ {p}, calc_matched(priorities, p, matched))

\* findmatch(regex): an append file of appendlist matches the pattern.
findmatch(appends, regex) ==
    \E bbfile \in DOMAIN appends :
        \E i \in 1..Len(appends[bbfile]) : match(regex, appends[bbfile][i])

\* collection_priorities(pkgfns): the priority of every file and the layers
\* warned about with "No bb files matched BBFILE_PATTERN_<layer>", in order.
collection_priorities_of(priorities, fns, appends) ==
    LET matched == MatchedBy(priorities, fns, {})
        unmatched == {priorities[i].regex : i \in 1..Len(priorities)} \ matched
        left == {regex \in unmatched : ~findmatch(appends, regex)}
        warned == SelectSeq(priorities, LAMBDA e : e.regex \in left)
    IN  [priorities |-> [q \in fns |-> calc_bbfile_priority(priorities, q)],
         warned |-> [i \in 1..Len(warned) |-> warned[i].c]]

\* The collection_priorities call of updateCache, on the collection of the
\* configuration that handleCollections accepted.
CollectionPriorities(fns) ==
    /\ hc_pc = "done"
    /\ hc_result = "ok"
    /\ cp_ret = <<>>
    /\ pkgfns' = fns
    /\ cp_ret' = <<collection_priorities_of(bbfile_config_priorities, fns, appendlist)>>
    /\ UNCHANGED <<results_maxsize, cache_load, servevars, uivars>>
    /\ UNCHANGED <<machinevars, featvars, lockvars, purevars>>

\* The append files there can be in appendlist: a.bbappend in a directory
\* inside a layer's directory.
WarnAppends ==
    {EmptyDict} \cup
    {DictAppend(EmptyDict, <<"a">> \o BB, Path(<<c, 1>>, <<"a">> \o BBAPPEND)) : c \in Layers}

\* The sets of recipe files of a call: up to two of the files in and outside
\* the layers' directories.
WarnFiles == {fns \in SUBSET PrioFiles : Cardinality(fns) <= 2}

\* Layers in list order, each with a pattern, and up to one append file.
WarnInit ==
    /\ MachineInit
    /\ filelist = <<>>
    /\ num_processes = 1
    /\ lock_owner = 1
    /\ ctor_pc = [c \in Cookers |-> IF c = 1 THEN "ready" ELSE "none"]
    /\ collection_list = ListOrder
    /\ layer_deps = [c \in Layers |-> {}]
    /\ layer_vermismatch = {}
    /\ layer_declared = [c \in Layers |-> <<6>>]
    /\ layer_pattern \in [Layers -> UNION {PatternChoices(c) \ {None} : c \in Layers}]
    /\ \A c \in Layers : layer_pattern[c] \in PatternChoices(c)
    /\ pri_ret = <<>>
    /\ appendlist \in WarnAppends
    /\ overlayed = <<>>
    /\ cb_ret = [exc |-> "none", bbfiles |-> <<>>, masked |-> 0]
    /\ cb_pc = "start"
    /\ appliedappendlist = <<>>
    /\ gfa_ret = <<>>
    /\ fs = {}
    /\ fs_reversed = FALSE
    /\ BBFILES = <<>>
    /\ BBMASK = NoMask
    /\ warn_only = ""
    /\ HcStart
    /\ TargetIdle

WarnNext == HcScan \/ HcCalc \/ \E fns \in WarnFiles : CollectionPriorities(fns)

WarnSpec == WarnInit /\ [][WarnNext]_vars

----
\* server_main.

\* What server_main's steps leave alone.
servedframe == <<uc_pc, ret, pn_ret, postdone, sigInTick, hasparser, configvars, feedervars,
                 workervars, countvars, sdvars, fromcache, genDone, jobs, result_queue,
                 recipecache, failed, rqvars, featvars, lockvars, layervars, targetvars,
                 results_maxsize, cache_load, pkgfns, cp_ret, uivars>>

\* cooker.pre_serve(): a PR service that does not start fires CookerExit and
\* leaves the state error; server_main goes on to the served function.
ServerPreServe ==
    /\ sm_pc = "start"
    /\ served' = TRUE
    /\ \E ok \in BOOLEAN :
           /\ state' = IF ok THEN state ELSE "error"
           /\ events' = IF ok THEN <<>> ELSE <<"CookerExit">>
           /\ exit_log' = IF ok THEN exit_log ELSE Append(exit_log, sm_pc)
    /\ sm_pc' = "func"
    /\ UNCHANGED <<servedframe, collectvars>>

\* The test of collect_bbfiles after BBFILES and get_bbfiles: no file at all.
NoRecipeFiles == sort(BBFILES) = <<>> /\ get_bbfiles = <<>>

\* The served function's updateCache reaches collect_bbfiles: with no recipe
\* files it logs the error, fires CookerExit and goes on.
ServedCollect ==
    /\ sm_pc = "func"
    /\ hc_pc = "done"
    /\ hc_result = "ok"
    /\ cb_pc = "start"
    /\ LET r == collect_bbfiles(BBMASK)
       IN  /\ cb_ret' = r.ret
           /\ appendlist' = r.appendlist
           /\ overlayed' = r.overlayed
    /\ cb_pc' = "done"
    /\ events' = IF NoRecipeFiles THEN <<"CookerExit">> ELSE <<>>
    /\ exit_log' = IF NoRecipeFiles THEN Append(exit_log, sm_pc) ELSE exit_log
    /\ UNCHANGED <<pri_ret, collectinputs, appliedappendlist, gfa_ret>>
    /\ UNCHANGED <<state, served, sm_pc, servedframe>>

\* ret = func(*args): the served function returns.
ServedReturn ==
    /\ sm_pc = "func"
    /\ sm_pc' = "post"
    /\ events' = <<>>
    /\ UNCHANGED <<state, served, exit_log, servedframe, collectvars>>

\* cooker.post_serve(): the PR service is shut down and CookerExit is fired.
ServerPostServe ==
    /\ sm_pc = "post"
    /\ events' = <<"CookerExit">>
    /\ exit_log' = Append(exit_log, sm_pc)
    /\ sm_pc' = "done"
    /\ UNCHANGED <<state, served, servedframe, collectvars>>

\* Layers with their own directories as patterns, any files on disk, BBFILES
\* unset or one glob, no BBMASK.
ServeInit ==
    /\ MachineInit
    /\ filelist = <<>>
    /\ num_processes = 1
    /\ lock_owner = 1
    /\ ctor_pc = [c \in Cookers |-> IF c = 1 THEN "ready" ELSE "none"]
    /\ collection_list = ListOrder
    /\ layer_deps = [c \in Layers |-> {}]
    /\ layer_vermismatch = {}
    /\ layer_declared = [c \in Layers |-> <<6>>]
    /\ layer_pattern = OwnPatterns
    /\ HcStart
    /\ TargetIdle
    /\ CollectStart
    /\ fs \in SUBSET (1..Len(Disk))
    /\ fs_reversed = FALSE
    /\ BBFILES \in {<<>>, <<Entry("glob", <<2>>, <<"*">>)>>}
    /\ BBMASK = NoMask
    /\ warn_only = ""

ServeNext ==
    \/ ServerPreServe
    \/ HcScan
    \/ HcCalc
    \/ ServedCollect
    \/ ServedReturn
    \/ ServerPostServe

ServeSpec == ServeInit /\ [][ServeNext]_vars

----
\* knotty: the event loop of main.

\* The events the server sends and the interrupts the user makes in a run.
MaxEvents == 3

MaxInterrupts == 3

\* The commands sent before an exception other than KeyboardInterrupt is raised.
MaxSent == 3

\* The events told apart: the run queue waiting for its tasks to end, the end
\* of the command with and without failure, an error record, and any event the
\* loop only displays.
UiEvents == {"runQueueExitWait", "CommandCompleted", "CommandFailed", "CommandExit",
             "LogRecordError", "TaskStarted"}

\* The exit code the CommandFailed and CommandExit events of a run carry.
EventExitCode == 1

\* What the console UI's steps leave alone.
uiframe == <<machinevars, featvars, lockvars, purevars, results_maxsize, cache_load,
             pkgfns, cp_ret, servevars, observe_only>>

\* The server puts an event on the UI's queue.
UiEventArrives(event) ==
    /\ ui_pc \in {"loop", "handler"}
    /\ ui_arrived < MaxEvents
    /\ ui_queue' = Append(ui_queue, event)
    /\ ui_arrived' = ui_arrived + 1
    /\ UNCHANGED <<ui_pc, main_shutdown, interrupted, return_value, ui_interrupts, sent>>
    /\ UNCHANGED uiframe

\* main.shutdown after an event has been handled.
ShutdownAfter(event, level) ==
    IF event = "runQueueExitWait" THEN (IF level = 0 THEN 1 ELSE level)
    ELSE IF event \in {"CommandCompleted", "CommandFailed", "CommandExit"} THEN 2
    ELSE level

\* return_value after an event has been handled.
ReturnValueAfter(event, value) ==
    IF event = "LogRecordError" THEN 1
    ELSE IF event = "CommandFailed" THEN EventExitCode
    ELSE IF event = "CommandExit" THEN (IF value = 0 THEN EventExitCode ELSE value)
    ELSE value

\* The value of main's return statement: 1 for an interrupted run that would
\* return 0.
ReturnedValue(wasInterrupted, value) == IF wasInterrupted /\ value = 0 THEN 1 ELSE value

\* One turn of the loop that is not interrupted: with no event waiting it
\* leaves the loop once main.shutdown exceeds 1 (and polls again otherwise);
\* with an event waiting it handles the event.
UiLoop ==
    /\ ui_pc = "loop"
    /\ IF ui_queue = <<>>
       THEN /\ main_shutdown > 1
            /\ ui_pc' = "exited"
            /\ return_value' = ReturnedValue(interrupted, return_value)
            /\ UNCHANGED <<main_shutdown, ui_queue>>
       ELSE /\ ui_queue' = Tail(ui_queue)
            /\ main_shutdown' = ShutdownAfter(Head(ui_queue), main_shutdown)
            /\ return_value' = ReturnValueAfter(Head(ui_queue), return_value)
            /\ UNCHANGED ui_pc
    /\ UNCHANGED <<interrupted, ui_arrived, ui_interrupts, sent>>
    /\ UNCHANGED uiframe

\* The command the KeyboardInterrupt handler sends: stateForceShutdown when
\* main.shutdown is 1, stateShutdown when it is 0, none for an observer.
InterruptCommand(observer, level) ==
    IF observer THEN <<>>
    ELSE IF level = 1 THEN <<"stateForceShutdown">>
    ELSE IF level = 0 THEN <<"stateShutdown">>
    ELSE <<>>

\* A KeyboardInterrupt raised in the try block: the handler up to the end of
\* its server.runCommand call.
UiInterrupt ==
    /\ ui_pc = "loop"
    /\ ui_interrupts < MaxInterrupts
    /\ ui_interrupts' = ui_interrupts + 1
    /\ main_shutdown' = IF observe_only THEN 2 ELSE main_shutdown
    /\ sent' = sent \o InterruptCommand(observe_only, main_shutdown)
    /\ interrupted' = (interrupted \/ (~observe_only /\ main_shutdown = 0))
    /\ ui_pc' = "handler"
    /\ UNCHANGED <<return_value, ui_queue, ui_arrived>>
    /\ UNCHANGED uiframe

\* main.shutdown = main.shutdown + 1, the end of the handler.
UiHandlerEnd ==
    /\ ui_pc = "handler"
    /\ main_shutdown' = main_shutdown + 1
    /\ ui_pc' = "loop"
    /\ UNCHANGED <<interrupted, return_value, ui_queue, ui_arrived, ui_interrupts, sent>>
    /\ UNCHANGED uiframe

\* A KeyboardInterrupt raised while the handler of an earlier one is still in
\* server.runCommand: no except clause covers the handler and main is left
\* by the exception.
UiInterruptInHandler ==
    /\ ui_pc = "handler"
    /\ ui_interrupts < MaxInterrupts
    /\ ui_interrupts' = ui_interrupts + 1
    /\ ui_pc' = "raised"
    /\ UNCHANGED <<main_shutdown, interrupted, return_value, ui_queue, ui_arrived, sent>>
    /\ UNCHANGED uiframe

\* Any other exception raised in the try block: stateForceShutdown unless
\* observing, and main.shutdown = 2.
UiException ==
    /\ ui_pc = "loop"
    /\ Len(sent) < MaxSent
    /\ sent' = sent \o (IF observe_only THEN <<>> ELSE <<"stateForceShutdown">>)
    /\ main_shutdown' = 2
    /\ UNCHANGED <<ui_pc, interrupted, return_value, ui_queue, ui_arrived, ui_interrupts>>
    /\ UNCHANGED uiframe

\* The UI at the top of its loop, driving a command or observing.
UiInit ==
    /\ MachineWith(ResultsCap)
    /\ cache_load = [f \in 1..MaxFiles |-> "hit"]
    /\ observe_only \in BOOLEAN
    /\ filelist = <<>>
    /\ num_processes = 1
    /\ lock_owner = 1
    /\ ctor_pc = [c \in Cookers |-> IF c = 1 THEN "ready" ELSE "none"]
    /\ LayersIdle

UiNext ==
    \/ \E event \in UiEvents : UiEventArrives(event)
    \/ UiLoop
    \/ UiInterrupt
    \/ UiHandlerEnd
    \/ UiInterruptInHandler
    \/ UiException

UiSpec == UiInit /\ [][UiNext]_vars

----
\* BBCooker.checkPackages and buildTaskData.

\* list.remove(value): the first occurrence goes.
remove(list, value) ==
    LET i == CHOOSE j \in 1..Len(list) : list[j] = value /\ \A k \in 1..(j - 1) : list[k] # value
    IN  SubSeq(list, 1, i - 1) \o SubSeq(list, i + 1, Len(list))

\* The targets of a set as <<name>> entries, in the order a loop over the set
\* visits them.
TargetsOf(names) == LET list == KeysOf(names) IN [i \in 1..Len(list) |-> <<list[i]>>]

\* The loop of checkPackages over the targets: a warning for every target that
\* is, as written, a word of ASSUME_PROVIDED.
WarnedTargets(pkgs) == SelectSeq(pkgs, LAMBDA pkg : Len(pkg) = 1 /\ pkg[1] \in ASSUME_PROVIDED)

\* The recipes of the cache: pn_provides, what every recipe provides, each
\* name by its parts between slashes.
pn_provides ==
    [pn \in {"a", "b", "c", "d", "e"} |->
        CASE pn = "a" -> {<<"a">>}
          [] pn = "b" -> {<<"b">>, <<"virtual", "kernel">>}
          [] pn = "c" -> {<<"c">>, <<"shared">>}
          [] pn = "d" -> {<<"d">>, <<"shared">>}
          [] pn = "e" -> {<<"e">>}]

\* recipecache.providers: the recipes that provide a name.
providers(p) == {pn \in DOMAIN pn_provides : p \in pn_provides[pn]}

\* The test buildWorldTargetList makes of a recipe: no name it provides starts
\* with virtual/ and none is provided by another recipe as well.
terminal(pn) ==
    \A p \in pn_provides[pn] : /\ ~(Len(p) > 1 /\ p[1] = "virtual")
                               /\ \A pf \in providers(p) : pf = pn

\* buildWorldTargetList(): recipecache.world_target after it, the terminal
\* recipes of possible_world added.
buildWorldTargetList(world) == world \cup {pn \in possible_world : terminal(pn)}

\* checkPackages(pkgs_to_build): the list it returns, or NothingToBuild, and
\* recipecache.world_target as it leaves it.
checkPackages(pkgs) ==
    IF Len(pkgs) = 0
    THEN [exc |-> "NothingToBuild", pkgs |-> <<>>, world_target |-> world_target]
    ELSE LET isworld == <<"world">> \in Range(pkgs)
             wt == IF isworld THEN buildWorldTargetList(world_target) ELSE world_target
             world == IF isworld
                      THEN remove(pkgs, <<"world">>) \o TargetsOf(wt)
                      ELSE pkgs
             universe == IF <<"universe">> \in Range(world)
                         THEN remove(world, <<"universe">>) \o TargetsOf(universe_target)
                         ELSE world
         IN  [exc |-> "none", pkgs |-> universe, world_target |-> wt]

\* The default task, self.configuration.cmd.
DefaultTask == "build"

\* The loop of buildTaskData over fulltargetlist: one runlist entry a target,
\* with the task named after :do_ or the default task.
BuildRunlist(fulltargetlist) ==
    [i \in 1..Len(fulltargetlist) |->
        LET k == fulltargetlist[i]
        IN  <<k[1], IF Len(k) > 1 THEN k[2] ELSE DefaultTask>>]

\* buildTaskData(pkgs, None, abort): what it returns and what it does to the
\* recipe cache.
buildTaskData(pkgs) ==
    /\ LET r == checkPackages(pkgs)
       IN  /\ world_target' = r.world_target
           /\ IF r.exc # "none"
              THEN /\ bt_ret' = [exc |-> r.exc, runlist |-> <<>>, fulltargetlist |-> <<>>]
                   /\ bt_warnings' = <<>>
              ELSE /\ bt_ret' = [exc |-> "none", runlist |-> BuildRunlist(r.pkgs),
                                 fulltargetlist |-> r.pkgs]
                   /\ bt_warnings' = WarnedTargets(pkgs)
    /\ bt_pc' = "done"
    /\ UNCHANGED <<targetinputs, ignored_dependencies>>
    /\ UNCHANGED <<machinevars, sidevars, featvars, lockvars, layervars, collectvars>>

\* buildTaskData called for a build of the targets asked for.
BuildTaskData ==
    /\ bt_pc = "start"
    /\ buildTaskData(pkgs_to_build)
    /\ UNCHANGED tree_event

\* generateDepTreeEvent(pkgs_to_build, task): the tree of
\* generateTaskDepTreeData, which prepares the task data and reads the cache in
\* buildDependTree, fired as DepTreeGenerated.
GenerateDepTreeEvent ==
    /\ bt_pc = "start"
    /\ buildTaskData(pkgs_to_build)
    /\ tree_event' = IF bt_ret'.exc = "none" THEN "DepTreeGenerated" ELSE bt_ret'.exc

\* generateDotGraphFiles(pkgs_to_build, task): the same tree, written to the
\* .dot files.
GenerateDotGraphFiles ==
    /\ bt_pc = "start"
    /\ buildTaskData(pkgs_to_build)
    /\ tree_event' = IF bt_ret'.exc = "none" THEN "dot" ELSE bt_ret'.exc

\* generateTargetsTree(None, pkgs): universe when no target is given, the tree
\* of generatePkgDepTreeData fired as TargetsTreeGenerated.
GenerateTargetsTree ==
    /\ bt_pc = "start"
    /\ buildTaskData(IF Len(pkgs_to_build) = 0 THEN <<<<"universe">>>> ELSE pkgs_to_build)
    /\ tree_event' = "TargetsTreeGenerated"

\* The targets a command can name.
Targets == {<<"a">>, <<"b">>, <<"a", "compile">>, <<"world">>, <<"universe">>}

\* Up to two different targets, any ASSUME_PROVIDED over the recipes a and b,
\* the ignored set updateCache made of it, any world candidates and universe
\* list, and a world list that is empty or was built by an earlier call.
TargetInit ==
    /\ MachineInit
    /\ filelist = <<>>
    /\ num_processes = 1
    /\ lock_owner = 1
    /\ ctor_pc = [c \in Cookers |-> IF c = 1 THEN "ready" ELSE "none"]
    /\ layer_pattern = OwnPatterns
    /\ collection_list = ListOrder
    /\ layer_declared = [c \in Layers |-> None]
    /\ layer_deps = [c \in Layers |-> {}]
    /\ layer_vermismatch = {}
    /\ HcStart
    /\ CollectIdle
    /\ TargetStart
    /\ pkgs_to_build \in {<<>>} \cup {<<t>> : t \in Targets}
                            \cup {<<t, u>> : t \in Targets, u \in Targets}
    /\ Len(pkgs_to_build) = 2 => pkgs_to_build[1] # pkgs_to_build[2]
    /\ ASSUME_PROVIDED \in SUBSET {"a", "b"}
    /\ ignored_dependencies = ASSUME_PROVIDED
    /\ possible_world \in SUBSET {"a", "b", "c", "e"}
    /\ world_target \in {{}, buildWorldTargetList({})}
    /\ universe_target \in SUBSET {"c"}

TargetNext ==
    \/ BuildTaskData
    \/ GenerateDepTreeEvent
    \/ GenerateDotGraphFiles
    \/ GenerateTargetsTree

TargetSpec == TargetInit /\ [][TargetNext]_vars

\* Any parse run, failing recipes included, under the same scheduling.
AbortSpec ==
    /\ Init
    /\ [][NextLive]_vars
    /\ WF_vars(DriverStep)
    /\ WF_vars(FeederStep)
    /\ \A w \in Workers : WF_vars(WorkerStep(w))

----
\* Properties.

Count(seq, f) == Cardinality({i \in DOMAIN seq : seq[i] = f})

CountResults(seq, f) == Cardinality({i \in DOMAIN seq : seq[i].fn = f})

Flag(b) == IF b THEN 1 ELSE 0

\* What worker w holds of file f: the job in its hand, a buffered result.
WorkerHolds(f, w) == Flag(wjob[w] = f) + CountResults(pending[w], f)

RECURSIVE HeldUpTo(_, _)
HeldUpTo(f, n) == IF n = 0 THEN 0 ELSE WorkerHolds(f, n) + HeldUpTo(f, n - 1)

\* The places a file of the current parse run is in, counted with multiplicity.
Occurrences(f) ==
    Count(fromcache, f) + Count(willparse, f) + Flag(fjob = f) + Count(jobs, f)
    + HeldUpTo(f, MaxWorkers)
    + CountResults(result_queue, f) + recipecache[f] + Flag(f \in failed)

NonCleanShutdown == haveshutdown /\ ~sd_clean

AllDelivered == \A f \in Range(filelist) : recipecache[f] = 1

\* C1: while no non-clean shutdown has been started, every file of the file list
\* is in exactly one place (a list, a channel, a process's hand, or delivered),
\* no file is ever delivered twice, and when parse_next reports the stream
\* drained without error every file has been delivered exactly once.
C1_ExactlyOnce ==
    hasparser =>
        \A f \in Range(filelist) :
            /\ recipecache[f] <= 1
            /\ ~NonCleanShutdown => Occurrences(f) = 1
            /\ (uc_pc = "post" /\ ~pn_ret /\ error = 0 /\ ~NonCleanShutdown)
                   => recipecache[f] = 1

C1_Witness ==
    /\ uc_pc = "post"
    /\ ~pn_ret
    /\ error = 0
    /\ AllDelivered
    /\ cached = 1
    /\ parsed = 1
    /\ haveshutdown /\ sd_clean

ParseRunDone ==
    /\ hasparser
    /\ ~pn_ret
    /\ error = 0
    /\ AllDelivered
    /\ toparse > 0 =>
           /\ haveshutdown /\ sd_clean /\ synced
           /\ feeder = "exited"
           /\ \A w \in Procs : wstate[w] = "exited"

\* C2: under fair scheduling of the driver, the feeder and the workers, a parse
\* run in which nothing fails reaches the point where parse_next has returned
\* False, every file is delivered and the clean shutdown has joined every worker
\* and the feeder.
C2_NoDeadlock == <>ParseRunDone

C2_Witness == ParseRunDone /\ num_processes = 1 /\ toparse = MaxFiles

\* C3: a tick during which a signal handler ran ends with the state
\* forceshutdown.
C3_SignalNotLost ==
    [][(uc_pc # "idle" /\ uc_pc' = "idle" /\ sigInTick) => state' = "forceshutdown"]_vars

\* C4: whenever the step just taken was the handler of SIGTERM or of SIGHUP, the
\* state is forceshutdown, and the handler gives forceshutdown from every state.
C4_HandlersForceShutdown ==
    /\ (\E signum \in Signals : events = <<SigWarning(signum)>>) => state = "forceshutdown"
    /\ \A signum \in Signals : \A st \in States :
           sigterm_exception(signum, st) = "forceshutdown"

C4_Witness ==
    /\ events = <<SigWarning("SIGHUP")>>
    /\ state = "forceshutdown"
    /\ uc_pc = "pn"
    /\ sigInTick

\* C5: while the state is forceshutdown no parse result is consumed: no recipe
\* is added to the recipe cache and the parsed count does not grow.
C5_NoResultAfterForce ==
    [][state = "forceshutdown" =>
           /\ \A f \in 1..MaxFiles : recipecache'[f] <= recipecache[f]
           /\ parsed' <= parsed]_vars

\* C6: the parse_next call that consumes a failure counts exactly one error,
\* starts a non-clean shutdown and returns False; no result is consumed after
\* it; the tick then raises and leaves the state as it is.
C6_FirstFailureAborts ==
    [][/\ (uc_pc = "pn" /\ failed' # failed) =>
              /\ error' = error + 1
              /\ genDone'
              /\ haveshutdown' /\ ~sd_clean' /\ ~sd_force'
              /\ uc_pc' = "sd_joinw"
       /\ (uc_pc = "sd_joinf" /\ uc_pc' # uc_pc /\ ~sd_force) => (uc_pc' = "post" /\ ~pn_ret')
       /\ (genDone /\ genDone') => (recipecache' = recipecache /\ parsed' = parsed)
       /\ (uc_pc = "post" /\ uc_pc' = "idle" /\ ~pn_ret /\ error > 0) =>
              (ret' = "raise" /\ state' = state)]_vars

C6_Witness ==
    /\ uc_pc = "idle"
    /\ ret = "raise"
    /\ error = 1
    /\ failed # {}
    /\ haveshutdown /\ ~sd_clean /\ ~sd_force /\ synced
    /\ state = "parsing"

\* C7: after the tick that consumed a parse failure has raised, the state is
\* error.
C7_FailureGivesError ==
    (uc_pc = "idle" /\ ret = "raise" /\ error > 0 /\ failed # {}) => state = "error"

\* C8: the idle tick on which the run queue drains while the state is shutdown
\* or forceshutdown leaves the state stopped.
C8_DrainedGivesStopped ==
    [][(rq # "none" /\ rq' = "none" /\ state \in {"shutdown", "forceshutdown"})
           => state' = "stopped"]_vars

\* C9: the state becomes running only at the end of the tick in which parse_next
\* returned False with both streams drained and no error, after the audit, the
\* preferred-provider handling and the priority computation; a tick whose
\* parse_next returned True returns True and does not assign the state.
C9_RunningOnlyWhenDrained ==
    [][/\ (state # "running" /\ state' = "running") =>
              /\ uc_pc = "post" /\ uc_pc' = "idle"
              /\ ~pn_ret
              /\ error = 0
              /\ fromcache = <<>> /\ WorkerStreamDrained
              /\ postdone' = <<"audit", "pref", "prio">>
              /\ ret' = "None"
       /\ (uc_pc = "post" /\ uc_pc' = "idle" /\ pn_ret) =>
              (ret' = "True" /\ state' = state)]_vars

C9_Witness ==
    /\ state = "running"
    /\ ret = "None"
    /\ postdone = <<"audit", "pref", "prio">>
    /\ cached = 1
    /\ parsed = 1

\* C10: a worker that holds a job leaves it only by publishing exactly one result
\* for that job (success or captured failure, naming the recipe) and going back
\* to the top of its loop, or by being terminated after the quit messages were
\* sent; a worker ends only on a quit message or on the job None.
C10_WorkerPublishesAndGoesOn ==
    [][uc_pc # "config" =>
           \A w \in Workers :
               /\ (wstate[w] = "parsing" /\ wstate'[w] # "parsing") =>
                      \/ /\ wstate'[w] = "top"
                         /\ Parser_parse(wjob[w]).fn = wjob[w]
                         /\ \/ /\ result_queue' = Append(result_queue, Parser_parse(wjob[w]))
                               /\ pending'[w] = <<>>
                            \/ /\ result_queue' = result_queue
                               /\ pending'[w] = <<Parser_parse(wjob[w])>>
                      \/ /\ wstate'[w] = "dead"
                         /\ NonCleanShutdown
               /\ (wstate[w] \in {"top", "getting", "parsing"} /\ wstate'[w] = "exited") =>
                      \/ wstate[w] = "top" /\ parser_quit > 0
                      \/ wstate[w] = "getting" /\ jobs # <<>> /\ Head(jobs) = Sentinel
               /\ Len(result_queue') > Len(result_queue) =>
                      \E v \in Workers : wstate[v] = "parsing" \/ pending[v] # <<>>]_vars

C10_Witness ==
    \E w \in Workers :
        /\ wstate[w] = "parsing"
        /\ result_queue # <<>>
        /\ result_queue[1].exc
        /\ num_processes = 1

\* The driver is inside a CookerParser.shutdown call.
InShutdown == uc_pc \in {"sd_put", "sd_joinw", "sd_joinf"}

\* C11: once a shutdown of the current parser has returned, no later step (and
\* so no later shutdown call, whatever its arguments) enters the shutdown body,
\* fires ParseCompleted, puts anything on the jobs, feeder-quit or parser-quit
\* channels, joins or terminates a process, or starts a cache sync: the parser's
\* shutdown state, its channels and its processes stay as the first call left
\* them.
C11_ShutdownIdempotent ==
    [][(haveshutdown /\ haveshutdown' /\ ~InShutdown) =>
           /\ ~InShutdown'
           /\ \A i \in DOMAIN events' : events'[i] # "ParseCompleted"
           /\ UNCHANGED <<sdvars, feeder_quit, parser_quit, jobs, feeder, wstate>>]_vars

C11_Witness ==
    /\ uc_pc = "post"
    /\ ret = "raise"
    /\ haveshutdown /\ ~sd_clean /\ synced
    /\ ~pn_ret
    /\ error = 1
    /\ state = "parsing"

\* The non-clean shutdown has returned: every worker has consumed one quit
\* message and exited, the feeder has exited, the joins are over.
NonCleanDone ==
    /\ NonCleanShutdown
    /\ ~InShutdown
    /\ synced
    /\ parser_quit = 0
    /\ feeder = "exited"
    /\ \A w \in Procs : wstate[w] = "exited"

\* C12 (as amended): after a non-clean, unforced shutdown a worker that comes to
\* the top of its loop consumes exactly one quit message and exits, so it takes
\* at most the one job it was already waiting for; the feeder at the top of its
\* loop exits, so it transfers at most the one job it was already putting; and
\* under fair scheduling the joins on the workers and on the feeder complete
\* with no quit message left.
C12_NonCleanShutdownCompletes ==
    /\ [][(NonCleanShutdown /\ ~sd_force /\ NonCleanShutdown') =>
              /\ \A w \in Procs :
                     (wstate[w] = "top" /\ wstate'[w] # "top") =>
                         (wstate'[w] = "exited" /\ parser_quit' = parser_quit - 1)
              /\ (feeder = "top" /\ feeder' # "top") => feeder' = "exited"]_vars
    /\ (NonCleanShutdown ~> NonCleanDone)

C12_Witness == NonCleanDone /\ num_processes = MaxWorkers /\ willparse # <<>>

\* C12 (as stated): after the quit messages of a non-clean shutdown were sent no
\* worker takes another job.
C12_NoJobAfterQuit ==
    [][NonCleanShutdown => \A w \in Procs : ~(wstate[w] = "getting" /\ wstate'[w] = "parsing")]_vars

\* C13: in a state other than initial no step changes the feature set or the
\* configuration data, and a setFeatures call ends by raising and leaves the
\* state as it is.
C13_SetFeaturesRejected ==
    [][state # "initial" =>
           /\ featureset' = featureset
           /\ cfg_features' = cfg_features
           /\ sf_ret' # sf_ret => (sf_ret' = "raise" /\ state' = state)]_vars

C13_Witness ==
    /\ sf_ret = "raise"
    /\ state = "running"
    /\ featureset = {0, 3}
    /\ cfg_features = featureset

\* C14: while the state is running and no tick is in flight, no step starts a
\* tick's work: updateCache returns None at once, the parser, its counters,
\* channels and processes, the file collection and the recipe cache stay as they
\* are, no parse event is fired, and the state changes only by a signal, a
\* shutdown request or the end of the command.
C14_UpdateCacheIdleInRunning ==
    [][(state = "running" /\ uc_pc = "idle") =>
           /\ uc_pc' = "idle"
           /\ ret' = ret \/ (rq # "none" /\ rq' = "none")
           /\ UNCHANGED <<hasparser, recipecache, configvars, countvars, sdvars, feedervars,
                          workervars, fromcache, genDone, jobs, result_queue, failed, postdone>>
           /\ \A i \in DOMAIN events' :
                  events'[i] \notin {"ParseStarted", "ParseProgress", "ParseCompleted"}
           /\ state' # state =>
                  \/ state' \in {"shutdown", "forceshutdown"}
                  \/ state' = "initial" /\ rq # "none" /\ rq' = "none"]_vars

C14_Witness ==
    /\ state = "running"
    /\ uc_pc = "idle"
    /\ ret = "None"
    /\ ENABLED UcEnter
    /\ hasparser /\ haveshutdown /\ synced
    /\ cached = 1
    /\ parsed = 1

\* A cooker past the lock attempt with the lock in hand.
Built(c) == ctor_pc[c] \in {"locked", "ready"}

\* The serving cooker has done something.
HasServed == served \/ hasparser \/ state # "initial"

\* C15: of the cookers constructed against one build directory at most one gets
\* past the lock attempt; a cooker that did not get the lock fails and is never
\* ready (no command object, no handlers); whoever got the lock holds it in
\* every later state, in particular whenever a cooker serves.
C15_OneCookerPerBuildDir ==
    /\ [](/\ Cardinality({c \in Cookers : Built(c)}) <= 1
          /\ \A c \in Cookers : Built(c) => lock_owner = c
          /\ \A c \in Cookers : ctor_pc[c] = "failed" => (lock_owner # c /\ lock_owner # 0)
          /\ HasServed => \E c \in Cookers : ctor_pc[c] = "ready" /\ lock_owner = c)
    /\ [][/\ lock_owner # 0 => lock_owner' = lock_owner
          /\ \A c \in Cookers : ctor_pc[c] = "failed" => ctor_pc'[c] = "failed"]_vars

C15_Witness ==
    /\ ctor_pc[1] = "failed"
    /\ ctor_pc[2] = "ready"
    /\ lock_owner = 2
    /\ state = "running"

\* C16: within a parse run a worker result is delivered only when every cached
\* file has been delivered, and a cached file is delivered only while no worker
\* result has been.
C16_CachedBeforeParsed ==
    [][/\ parsed' > parsed =>
              (fromcache = <<>> /\ cached = Len(FromCacheOf(filelist, validSet)))
       /\ cached' > cached => parsed = 0]_vars

C16_Witness ==
    /\ uc_pc = "post"
    /\ pn_ret
    /\ cached = 1
    /\ parsed = 1
    /\ fromcache = <<>>
    /\ events = <<"ParseProgress">>

\* The parse_next call that finds both streams drained for the first time in a
\* run without error.
DrainsNow ==
    /\ uc_pc = "pn"
    /\ uc_pc' # "pn"
    /\ fromcache = <<>>
    /\ WorkerStreamDrained
    /\ error = 0
    /\ ~haveshutdown

\* C17: the parse_next call that finds a run drained without error fires
\* ParseCompleted, once, and no other step of the run fires it.
C17_OneParseCompleted ==
    [][/\ DrainsNow => events' = <<"ParseCompleted">>
       /\ (\E i \in DOMAIN events' : events'[i] = "ParseCompleted") => DrainsNow]_vars

\* The run of C17 that fires nothing: every file came from the cache.
C17_AllCachedDrained ==
    /\ uc_pc = "post"
    /\ ~pn_ret
    /\ error = 0
    /\ toparse = 0
    /\ cached = MaxFiles
    /\ events = <<>>
    /\ ~haveshutdown

C19_ExplicitPriorityKept ==
    hc_pc = "done" =>
        \A c \in Layers :
            layer_declared[c] # None => collection_priorities[c] = layer_declared[c]

\* Declared priorities other than 0 are kept, whatever the dependencies.
C19_NonZeroKept ==
    /\ hc_pc = "done"
    /\ layer_declared[1] = <<-1>> /\ collection_priorities[1] = <<-1>>
    /\ layer_declared[2] = <<5>> /\ collection_priorities[2] = <<5>>
    /\ layer_deps[1] = {2}

\* The declared priorities, and the smallest of them (0 when no layer declares
\* one).
DeclaredValues == {layer_declared[c][1] : c \in {d \in Layers : layer_declared[d] # None}}

SmallestDeclared ==
    IF DeclaredValues = {} THEN 0
    ELSE CHOOSE m \in DeclaredValues : \A v \in DeclaredValues : m <= v

\* The largest priority among the dependencies of layer c.
MaxDepPriority(c) ==
    CHOOSE m \in {collection_priorities[d][1] : d \in layer_deps[c]} :
        \A d \in layer_deps[c] : collection_priorities[d][1] <= m

\* C20: once handleCollections is done a layer that declared no priority has
\* the largest priority of its dependencies plus one, or the smallest declared
\* priority plus one when it has no dependencies.
C20_ComputedPriority ==
    hc_pc = "done" =>
        \A c \in Layers :
            layer_declared[c] = None =>
                collection_priorities[c] =
                    <<(IF layer_deps[c] = {} THEN SmallestDeclared ELSE MaxDepPriority(c)) + 1>>

\* The example: A declares 5, B depends on A, C depends on B.
C20_Example ==
    /\ hc_pc = "done"
    /\ layer_declared[1] = <<5>> /\ layer_declared[2] = None /\ layer_declared[3] = None
    /\ layer_deps[1] = {} /\ layer_deps[2] = {1} /\ layer_deps[3] = {2}
    /\ collection_priorities[1] = <<5>>
    /\ collection_priorities[2] = <<6>>
    /\ collection_priorities[3] = <<7>>

\* C21: with no explicit priorities and acyclic dependencies, the priorities
\* handleCollections computes are the ones it computes for every other order of
\* the layer list.
C21_PermutationStable ==
    (hc_pc = "done" /\ hc_result = "ok") =>
        \A list \in Perms :
            LET r == CalcAll(layer_declared, list)
            IN  r.exc = "none" /\ r.p = collection_priorities

\* A chain listed against its dependencies: layer 1 depends on 2, 2 on 3, and
\* the list starts with layer 1.
C21_Witness ==
    /\ hc_pc = "done"
    /\ hc_result = "ok"
    /\ collection_list[1] = 1 /\ collection_list[2] = 3
    /\ layer_deps[1] = {2} /\ layer_deps[2] = {3}
    /\ collection_priorities[1] = <<3>>
    /\ collection_priorities[3] = <<1>>

\* C22: when the dependencies of layers without a declared priority form a
\* cycle (and every dependency is enabled), handleCollections ends by raising
\* CollectionError.
C22_CycleReported ==
    (/\ hc_pc = "done"
     /\ ~Acyclic(UndeclaredDeps)
     /\ \A c \in Layers : NotEnabled \notin layer_deps[c])
        => hc_result = "CollectionError"

\* A cycle through a layer that declares its priority ends: layers 1 and 2
\* depend on each other and layer 2 declares 5.
C22_DeclaredCycleEnds ==
    /\ hc_pc = "done"
    /\ hc_result = "ok"
    /\ layer_deps[1] = {2} /\ layer_deps[2] = {1}
    /\ layer_declared[1] = None /\ layer_declared[2] = <<5>>
    /\ collection_priorities[1] = <<6>>

\* C23: when a layer depends on a layer that is not enabled or on a mismatching
\* version (and no dependencies form a cycle), handleCollections works out every
\* layer's priority and ends by raising CollectionError.
C23_DependencyErrorsCollected ==
    (/\ hc_pc = "done"
     /\ Acyclic(EnabledDeps)
     /\ \/ layer_vermismatch # {}
        \/ \E c \in Layers : NotEnabled \in layer_deps[c])
        => /\ hc_result = "CollectionError"
           /\ \A c \in Layers : collection_priorities[c] # None

\* A layer with a declared priority depends on a layer that is not enabled,
\* another layer asks a mismatching version: CollectionError after every
\* layer has its priority.
C23_Witness ==
    /\ hc_pc = "done"
    /\ hc_result = "CollectionError"
    /\ layer_declared[1] = <<5>> /\ layer_deps[1] = {NotEnabled}
    /\ layer_declared[2] = None /\ layer_deps[2] = {1} /\ 2 \in layer_vermismatch
    /\ collection_priorities[2] = <<6>>

\* The positions in the enabled-layer list of the layers whose pattern matches
\* the file.
MatchingPositions(filename) ==
    {i \in 1..MaxLayers :
        /\ layer_pattern[collection_list[i]] # None
        /\ match(layer_pattern[collection_list[i]], filename)}

\* C24: calc_bbfile_priority returns the priority of the first layer, in the
\* order of the enabled-layer list, whose pattern matches the file, and 0 when
\* no layer's pattern matches.
C24_FirstMatchingLayer ==
    pri_ret # <<>> =>
        LET hits == MatchingPositions(pri_ret[1])
        IN  pri_ret[2] =
                IF hits = {} THEN 0
                ELSE collection_priorities[
                         collection_list[CHOOSE i \in hits : \A j \in hits : i <= j]][1]

\* Two layers match the file and the first of them in the list has the lower
\* priority, which is the one returned.
C24_Witness ==
    /\ pri_ret # <<>>
    /\ pri_ret[2] = 6
    /\ \E i, j \in MatchingPositions(pri_ret[1]) :
          /\ i < j
          /\ \A k \in MatchingPositions(pri_ret[1]) : i <= k
          /\ collection_priorities[collection_list[j]] = <<7>>

\* C25: a file matched by the patterns of several layers gets the highest
\* priority among the matching layers.
C25_HighestMatchingLayer ==
    pri_ret # <<>> =>
        \A i \in MatchingPositions(pri_ret[1]) :
            collection_priorities[collection_list[i]][1] <= pri_ret[2]

\* Layers with priorities 6 and 7 both match, the layer with 7 is listed
\* first, and the file gets 7.
C25_HigherListedFirst ==
    /\ pri_ret # <<>>
    /\ pri_ret[2] = 7
    /\ \E i, j \in MatchingPositions(pri_ret[1]) :
          /\ i < j
          /\ collection_priorities[collection_list[i]] = <<7>>
          /\ collection_priorities[collection_list[j]] = <<6>>

\* C26: after collect_bbfiles (BBMASK unset or valid), for every basename that
\* several collected recipes have, one of them from a layer of the highest
\* priority among them is a key of the overlay map, and each of the others is
\* listed exactly once under that key.
C26_OverlayWinnerHighestPriority ==
    (cb_pc = "done" /\ cb_ret.exc = "none" /\ BBMASK.kind # "invalid") =>
        \A f \in Range(cb_ret.bbfiles) :
            LET same == {g \in Range(cb_ret.bbfiles) : g.base = f.base}
                pri(g) == calc_bbfile_priority(bbfile_config_priorities, g)
            IN  Cardinality(same) > 1 =>
                    \E top \in same :
                        /\ \A g \in same : pri(g) <= pri(top)
                        /\ top \in DOMAIN overlayed[1]
                        /\ \A g \in same \ {top} : Count(overlayed[1][top], g) = 1

\* One BBFILES entry a layer, layer 2 with the higher priority: its a.bb wins
\* and the a.bb of layer 1 is listed under it.
C26_Witness ==
    /\ cb_pc = "done"
    /\ BBFILES = <<Entry("glob", <<2>>, <<"*">>), Entry("glob", <<1>>, <<"*">>)>>
    /\ layer_declared[1] = <<6>> /\ layer_declared[2] = <<7>>
    /\ cb_ret.bbfiles = <<Disk[1], Disk[2]>>
    /\ DOMAIN overlayed[1] = {Disk[2]}
    /\ overlayed[1][Disk[2]] = <<Disk[1]>>

\* C27: collect_bbfiles with a BBMASK that is not a regular expression returns
\* the recipe list and masked count, and leaves the append index and the
\* overlay map, that it does with BBMASK unset.
C27_InvalidMaskAsNoMask ==
    (cb_pc = "done" /\ BBMASK.kind = "invalid") =>
        LET unset == collect_bbfiles(NoMask)
        IN  /\ cb_ret = unset.ret
            /\ appendlist = unset.appendlist
            /\ overlayed = unset.overlayed

\* With only recipes on disk the recipe list and the masked count under an
\* invalid BBMASK are those of BBMASK unset.
C27_RecipesOnly ==
    /\ cb_pc = "done"
    /\ BBMASK.kind = "invalid"
    /\ fs = {1, 3}
    /\ Len(cb_ret.bbfiles) = 2
    /\ cb_ret = collect_bbfiles(NoMask).ret

\* The keys of the append index that are fn's basename, or hold a % with the
\* text before it a prefix of fn's basename.
KeysFor(fn) ==
    {k \in DOMAIN appendlist :
        \/ k = fn.base
        \/ /\ "%" \in Range(k)
           /\ startswith(fn.base, SubSeq(k, 1, index(k, "%")))}

\* C28: a get_file_appends(fn) call returns exactly the append files indexed
\* under the keys that are fn's basename or whose text before the % is a
\* prefix of fn's basename, and appends exactly those keys, once each, to the
\* applied list.
C28_AppendsForRecipe ==
    [][(gfa_ret' # gfa_ret \/ appliedappendlist' # appliedappendlist) =>
        LET fn == gfa_ret'[1]
            marked == SubSeq(appliedappendlist', Len(appliedappendlist) + 1,
                             Len(appliedappendlist'))
        IN  /\ Range(gfa_ret'[2]) = UNION {Range(appendlist[k]) : k \in KeysFor(fn)}
            /\ SubSeq(appliedappendlist', 1, Len(appliedappendlist)) = appliedappendlist
            /\ Range(marked) = KeysFor(fn)
            /\ Len(marked) = Cardinality(KeysFor(fn))]_vars

\* The append ab%.bbappend is returned for ab.bb and its key is marked.
C28_WildcardApplied ==
    /\ gfa_ret # <<>>
    /\ gfa_ret[1] = Path(<<1>>, <<"a", "b">> \o BB)
    /\ gfa_ret[2] = <<Disk[5]>>
    /\ appliedappendlist = <<AppendKey(Disk[5])>>

\* The keys of the append index that no collected recipe applies.
Dangling == {k \in DOMAIN appendlist : \A f \in Range(cb_ret.bbfiles) : ~AppendApplies(k, f.base)}

\* C29: the tick after a parse without errors ends fatally and leaves the state
\* parsing when some append was never applied and BB_DANGLINGAPPENDS_WARNONLY
\* is not 1, yes or true in any case of letters; with that setting it warns and
\* reaches running; with every append applied it reports nothing and reaches
\* running.
C29_DanglingAppendAudit ==
    [][(state = "parsing" /\ cb_pc = "done" /\ ret = "none" /\ ret' # "none") =>
        IF Dangling = {}
        THEN state' = "running" /\ events' = <<>>
        ELSE IF warn_only \in {"1", "yes", "YES", "true", "True"}
        THEN state' = "running" /\ events' = <<"No recipes available">>
        ELSE state' = "parsing" /\ ret' = "fatal"]_vars

\* Only the recipe a.bb of layer 1, which is masked, and the append
\* ab%.bbappend are on disk: fatal, and the state is still parsing.
C29_Witness ==
    /\ state = "parsing"
    /\ ret = "fatal"
    /\ BBMASK.kind = "regex"
    /\ fs = {1, 5}
    /\ warn_only = "no"
    /\ Dangling # {}

\* C30: after buildTaskData every target asked for that is a word of
\* ASSUME_PROVIDED has been warned about, is not in the list checkPackages
\* returned and has no runlist entry (when world does not bring it in), and the
\* ignored set is what it was.
C30_AssumeProvidedTargetDropped ==
    (bt_pc = "done" /\ bt_ret.exc = "none") =>
        /\ ignored_dependencies = ASSUME_PROVIDED
        /\ \A pkg \in Range(pkgs_to_build) :
              (Len(pkg) = 1 /\ pkg[1] \in ASSUME_PROVIDED) =>
                  /\ pkg \in Range(bt_warnings)
                  /\ (<<"world">> \notin Range(pkgs_to_build) \/ pkg[1] \notin world_target) =>
                        /\ pkg \notin Range(bt_ret.fulltargetlist)
                        /\ \A i \in 1..Len(bt_ret.runlist) : bt_ret.runlist[i][1] # pkg[1]

\* Target a is in ASSUME_PROVIDED: it is warned about and the ignored set is
\* unchanged.
C30_Warned ==
    /\ bt_pc = "done"
    /\ pkgs_to_build = <<<<"a">>, <<"b">>>>
    /\ ASSUME_PROVIDED = {"a"}
    /\ bt_warnings = <<<<"a">>>>
    /\ ignored_dependencies = {"a"}

\* C31: no graph operation (generateDepTreeEvent, generateDotGraphFiles,
\* generateTargetsTree) changes an index of the RecipeCache, whatever the
\* targets, world and universe included.
C31_GraphLeavesCacheAlone ==
    [][tree_event' # tree_event =>
          UNCHANGED <<world_target, universe_target, possible_world,
                      ignored_dependencies, bbfile_config_priorities, recipecache>>]_vars

\* A graph of world has been emitted and the world list holds recipes.
C31_WorldGraphEmitted ==
    /\ tree_event = "DepTreeGenerated"
    /\ pkgs_to_build = <<<<"world">>>>
    /\ possible_world = {"a", "b"}
    /\ world_target = {"a"}

\* C32: a worker's pending buffer holds at most one result, and a worker that
\* holds one is at the top of its loop or has ended: its next step takes no
\* job, it either ends on a quit message or puts the buffered result again,
\* and the buffer empties only when that put succeeded (or a new parser is
\* built).
C32_OnePendingNoNewJob ==
    /\ [](\A w \in Workers : Len(pending[w]) <= 1)
    /\ [][\A w \in Workers :
              pending[w] # <<>> =>
                  /\ wstate[w] \notin {"getting", "parsing"}
                  /\ wstate'[w] \notin {"getting", "parsing"}
                  /\ wjob'[w] = wjob[w]
                  /\ (wstate[w] = "top" /\ wstate'[w] = "exited") => parser_quit > 0
                  /\ pending'[w] # pending[w] =>
                        /\ pending'[w] = <<>>
                        /\ \/ result_queue' = Append(result_queue, pending[w][1])
                           \/ uc_pc = "config"]_vars

\* A worker at the top of its loop holds a result it could not publish: the
\* channel is full and no quit message has been sent.
C32_BufferedAtTop ==
    \E w \in Workers :
        /\ pending[w] # <<>>
        /\ wstate[w] = "top"
        /\ parser_quit = 0
        /\ Len(result_queue) = results_maxsize

\* C33: the results channel has a capacity that does not grow with the number
\* of files to parse: a run of more than one file never has the results of all
\* its files in the channel at once.
C33_ResultsBounded == toparse > 1 => Len(result_queue) < toparse

\* Every file to parse has its result in the channel, none was consumed and no
\* worker had to buffer one.
C33_AllResultsQueued ==
    /\ toparse = MaxFiles
    /\ Len(result_queue) = toparse
    /\ parsed = 0
    /\ \A w \in Workers : pending[w] = <<>>

\* The results parse_next has taken from its two streams so far.
Consumed == current + error

\* C34: a parse_next call takes at most one result from its streams and then
\* leaves parse_next, and a tick inside parse_next can always go on by itself:
\* it does not have to wait for a worker to publish.
C34_TickNeverWaits ==
    /\ [][uc_pc = "pn" =>
             /\ Consumed' <= Consumed + 1
             /\ Consumed' = Consumed + 1 => uc_pc' # "pn"]_vars
    /\ [](uc_pc = "pn" => ENABLED UcParseNext)

\* parse_next is waiting: nothing is cached, parses are outstanding, the
\* results channel is empty and a worker is still parsing.
C34_DriverWaiting ==
    /\ uc_pc = "pn"
    /\ fromcache = <<>>
    /\ parsed < toparse
    /\ result_queue = <<>>
    /\ \E w \in Workers : wstate[w] = "parsing"

\* The layers of the collection whose pattern matches a file of fns.
LayersMatching(fns) ==
    {bbfile_config_priorities[i].c : i \in
        {j \in 1..Len(bbfile_config_priorities) :
            \E f \in fns : match(bbfile_config_priorities[j].regex, f)}}

\* The append files indexed in appendlist.
IndexedAppends == UNION {Range(appendlist[k]) : k \in DOMAIN appendlist}

\* C35: collection_priorities warns about a layer only if the layer's pattern
\* matches none of the recipe files given and none of the indexed append files;
\* a layer whose pattern matches a recipe file is not warned about, also when
\* a layer earlier in the list matches every file it matches.
C35_WarnedOnlyWhenNothingMatches ==
    cp_ret # <<>> =>
        \A c \in Range(cp_ret[1].warned) :
            /\ c \notin LayersMatching(pkgfns)
            /\ c \notin LayersMatching(IndexedAppends)

\* A call that warned about the one layer that matches nothing, with a recipe
\* file matched by the two other layers.
C35_WarnedLayer ==
    /\ cp_ret # <<>>
    /\ cp_ret[1].warned = <<3>>
    /\ pkgfns = {Path(<<2, 1>>, <<"a">>)}
    /\ LayersMatching(pkgfns) = {2}

\* C36: once a signal has put the cooker in forceshutdown, no shutdown request
\* takes the state to shutdown.
C36_ForceShutdownNotDowngraded ==
    [][state = "forceshutdown" => state' # "shutdown"]_vars

\* SIGHUP has just put the serving cooker in forceshutdown, between two ticks:
\* a shutdown request can be served next.
C36_ForcedBetweenTicks ==
    /\ state = "forceshutdown"
    /\ events = <<SigWarning("SIGHUP")>>
    /\ served
    /\ uc_pc = "idle"
    /\ ENABLED CookerShutdown(FALSE)

\* C37: the parser's counters satisfy cached + parsed = current <= total and
\* parsed <= toparse, and the clean shutdown fires ParseCompleted with
\* cached + parsed = total, whether the load of a file of fromcache reports a
\* hit or a miss.
C37_CountersAddUp ==
    hasparser =>
        /\ cached + parsed = current
        /\ current <= Len(filelist)
        /\ parsed <= toparse
        /\ "ParseCompleted" \in Range(events) => cached + parsed = Len(filelist)

\* A run with a file from the cache and a parsed file has fired ParseCompleted,
\* every load having been a hit.
C37_CompletedWithHit ==
    /\ "ParseCompleted" \in Range(events)
    /\ \A f \in 1..MaxFiles : cache_load[f] = "hit"
    /\ cached = 1
    /\ parsed = 1

\* C38: once parse_next has returned False for a parser, a later parse_next
\* call on it can return at once, and no step taken during the call changes the
\* counters or the recipe cache, takes a result from the results channel or
\* makes the call return anything but False.
C38_FalseIsFinal ==
    /\ [][(hasparser /\ ~pn_ret /\ uc_pc = "pn") =>
              /\ countvars' = countvars
              /\ recipecache' = recipecache
              /\ Len(result_queue') >= Len(result_queue)
              /\ ~pn_ret']_vars
    /\ [](hasparser /\ ~pn_ret /\ uc_pc = "pn" => ENABLED UcParseNext)

\* parse_next is called again on a parser that failed on a worker's result.
C38_CalledAgainAfterFailure ==
    /\ hasparser
    /\ ~pn_ret
    /\ uc_pc = "pn"
    /\ error = 1
    /\ genDone

\* C39: one server_main run fires exactly one CookerExit, and fires it after
\* the served function has returned: none before, a single one once
\* server_main is done.
C39_OneCookerExit ==
    /\ \A i \in 1..Len(exit_log) : exit_log[i] = "post"
    /\ sm_pc = "done" => Len(exit_log) = 1

\* A run is over in which the PR service started and recipe files were found.
C39_ServedAndLeft ==
    /\ sm_pc = "done"
    /\ state = "initial"
    /\ cb_pc = "done"
    /\ cb_ret.bbfiles # <<>>
    /\ exit_log = <<"post">>

\* C40: in a UI that is not observing, an interrupt taken with the counter at 0
\* sends stateShutdown, one taken with the counter at 1 sends
\* stateForceShutdown, stateShutdown is sent at most once, every interrupt
\* raises the counter by one, the loop is left only with the counter above 1
\* and no event waiting, and an interrupted run returns a value other than 0.
C40_InterruptsEscalate ==
    /\ [][~observe_only =>
             /\ (ui_interrupts' = ui_interrupts + 1 /\ main_shutdown = 0) =>
                    sent' = Append(sent, "stateShutdown")
             /\ (ui_interrupts' = ui_interrupts + 1 /\ main_shutdown = 1) =>
                    sent' = Append(sent, "stateForceShutdown")
             /\ (ui_pc = "handler" /\ ui_pc' # "handler") =>
                    (ui_pc' = "loop" /\ main_shutdown' = main_shutdown + 1)
             /\ (ui_pc = "loop" /\ ui_pc' \notin {"loop", "handler"}) =>
                    (ui_pc' = "exited" /\ main_shutdown > 1 /\ ui_queue = <<>>)]_vars
    /\ [](~observe_only =>
             /\ Count(sent, "stateShutdown") <= 1
             /\ (ui_pc = "exited" /\ interrupted) => return_value # 0)

\* Two interrupts taken one after the other by the loop: both commands were
\* sent and main has returned 1.
C40_TwoInterruptsHandled ==
    /\ ~observe_only
    /\ ui_pc = "exited"
    /\ sent = <<"stateShutdown", "stateForceShutdown">>
    /\ main_shutdown = 2
    /\ ui_interrupts = 2
    /\ return_value = 1

====
